---- MODULE Spec2Model ----
(***************************************************************************)
(* Model of the live-data monitor of eu-petition-tracker:                  *)
(* src/lib/datamonitor.ts (poller, change detector, persister and          *)
(* SubscriberManager) with src/lib/config.ts (goal override) and           *)
(* src/lib/supabase.ts (storage credentials).                              *)
(*                                                                         *)
(* The JavaScript event loop is modelled by interleaving: every action is  *)
(* one run-to-completion job (a timer callback, the continuation of an     *)
(* await, an exported function called by a request handler).  The only     *)
(* code that is split over several actions without an await is the for-of  *)
(* loop of SubscriberManager.notify: each iteration is one action, and     *)
(* while the loop runs no other job is enabled.                            *)
(***************************************************************************)
EXTENDS Integers, Sequences, FiniteSets, TLC

\* ------------------------------------------------------------------ bounds
\* Each specification below bounds the counters it lets grow.
MaxCount == 1        \* upstream signature counts are 0..MaxCount
PollerTicks == 2     \* SpecPoller: executions of checkForChanges
PollerSubs == 1      \* SpecPoller: callbacks ever passed to subscribe
PollerEpochs == 1    \* SpecPoller: changes of the upstream signature count
FanoutTicks == 2     \* SpecFanout: executions of checkForChanges
FanoutSubs == 2      \* SpecFanout: callbacks ever passed to subscribe
FanoutEpochs == 1    \* SpecFanout: changes of the upstream signature count
LifecycleTicks == 3  \* SpecLifecycle: executions of checkForChanges
LifecycleSubs == 1   \* SpecLifecycle: callbacks ever passed to subscribe
LegacyTicks == 2     \* SpecLegacy: executions of checkForChanges
LegacySubs == 1      \* SpecLegacy: callbacks ever passed to subscribe
LegacyEpochs == 1    \* SpecLegacy: changes of the upstream signature count
MaxRows == 2         \* SpecHistory: rows in signature_snapshots
StreamConns == 2     \* SpecStream: requests to the live-data endpoint
StreamTicks == 2     \* SpecStream: executions of checkForChanges
StreamEpochs == 1    \* SpecStream: changes of the upstream signature count
StreamWrites == 1    \* SpecStream: heartbeats are written to a connection with fewer chunks
WsTimerIds == 2      \* SpecWebSocket: ids window.setTimeout hands out in turn
WsSockets == 3       \* SpecWebSocket: WebSocket objects created
MaxStatRows == 2     \* SpecStatistics: rows the query returns
RestartConns == 2    \* SpecRestart: requests to the live-data endpoint
RestartTicks == 2    \* SpecRestart: executions of checkForChanges
ClientRows == 1      \* SpecClient: rows in signature_snapshots
ClientMessages == 2  \* SpecClient: events the dashboard receives

\* --------------------------------------------------------- values of the code
GOAL_OVERRIDE == 1500000
FALLBACK_GOAL == 1500000     \* stats endpoint: currentLiveData?.goal || 1500000
STATS_WINDOW_HOURS == 25     \* stats endpoint: Date.now() - 25 * 60 * 60 * 1000
MAX_HISTORICAL_ENTRIES == 1000
SEC_WINDOW == 30000          \* 30 * 1000
MIN_WINDOW == 300000         \* 5 * 60 * 1000
HOUR_WINDOW == 3600000       \* 60 * 60 * 1000
DAY_WINDOW == 86400000       \* 24 * 60 * 60 * 1000
OSLO_OFFSET == 7200000       \* Europe/Oslo in summer: two hours ahead of UTC
maxReconnectAttempts == 5    \* WebSocketStore.maxReconnectAttempts
NOW == 343800000             \* a value of Date.now(): 1970-01-04T23:30Z, 01:30 in Oslo
UPSTREAM_GOAL == 1000000     \* a goal the upstream may report
Null == -1                   \* JavaScript null (lastSignatureCount, monitorInterval)
Undefined == -2              \* a property the decoded JSON does not have
NaN == -1000                 \* undefined - number
Empty == 0                   \* a deleted entry of a Set's entry list
NoData == << >>              \* cachedData = null; also "no object" for a response

Counts == 0..MaxCount
RawGoals == {UPSTREAM_GOAL}

VARIABLES
    cachedData,          \* let cachedData
    lastSignatureCount,  \* let lastSignatureCount
    monitorInterval,     \* let monitorInterval: a timer id or Null
    timers,              \* the interval timers of the runtime that are active
    nextTimer,           \* the next timer id setInterval returns
    hasValidSupabase,    \* supabase.ts: fixed when the module is loaded
    subscribers,         \* SubscriberManager.subscribers: the Set's entry list
    handles,             \* callbacks whose subscribe call returned an unsubscribe function
    ticks,               \* the executions of checkForChanges and their local variables
    notifying,           \* the running notify call and its iterator
    history,             \* the rows of table signature_snapshots
    upstream,            \* what the EU API reports now
    epoch,               \* history variable: how often upstream has changed
    lastFetch,           \* history variable: the last decoded response (rawData) and
                         \* the lastSignatureCount it was compared with
    calls,               \* history variable: per callback ever subscribed (1, 2, ... in
                         \* the order of the subscribe calls), how often it was invoked
                         \* and with what last
    unsubscribed,        \* history variable: callbacks whose unsubscribe function was called
    threw,               \* history variable: callbacks that threw inside notify
    notifyLog,           \* history variable: the notify calls made: the count notified
                         \* and the upstream epoch it was fetched in
    table,               \* signature_snapshots as the history endpoints query it:
                         \* rows in ascending order of timestamp
    response,            \* the last response of a history endpoint
    connectionCount,     \* live-data endpoint: let connectionCount
    monitoringStarted,   \* live-data endpoint: let monitoringStarted
    conns,               \* the streaming connections: the closure variables of each
                         \* start(controller) call
    statsCall,           \* the request to the stats endpoint: its locals
    liveData,            \* dashboard: let liveData
    lastUpdated,         \* dashboard: let lastUpdated
    historicalData,      \* dashboard: let historicalData
    inbox,               \* history variable: the events the dashboard's EventSource
                         \* has received, in order
    calc,                \* the statistics computed from a set of rows: the arguments
                         \* and the results
    ws,                  \* WebSocketStore.ws: a socket (its index in sockets) or Null
    reconnectAttempts,   \* WebSocketStore.reconnectAttempts
    reconnectTimeout,    \* WebSocketStore.reconnectTimeout: a timer id or Null
    wsConnected,         \* the store wsConnected
    sockets,             \* the WebSocket objects created, each with its state; the
                         \* handlers connect() gave it stay attached
    wsTimers,            \* window.setTimeout: the pending timers and the next id
    disconnected         \* history variable: disconnect() was called and connect()
                         \* has not been called by the owner since

vars == <<cachedData, lastSignatureCount, monitorInterval, timers, nextTimer,
          hasValidSupabase, subscribers, handles, ticks, notifying, history,
          upstream, epoch, lastFetch, calls, unsubscribed, threw, notifyLog,
          table, response, connectionCount, monitoringStarted, conns,
          statsCall, liveData, lastUpdated, historicalData, inbox, calc,
          ws, reconnectAttempts, reconnectTimeout, wsConnected, sockets, wsTimers,
          disconnected>>

monitorVars == <<cachedData, lastSignatureCount, history, notifyLog>>
timerVars == <<monitorInterval, timers, nextTimer>>
subVars == <<subscribers, handles, calls, unsubscribed, threw>>
envVars == <<hasValidSupabase, upstream, epoch>>
apiVars == <<table, response, statsCall, calc>>
connVars == <<connectionCount, monitoringStarted, conns>>
clientVars == <<liveData, lastUpdated, historicalData, inbox>>
wsVars == <<ws, reconnectAttempts, reconnectTimeout, wsConnected, sockets, wsTimers,
            disconnected>>

\* ------------------------------------------------------------- config.ts
\* applyGoalOverride on a decoded object: falsy data is returned as it is,
\* an object is copied with goal replaced.
applyGoalOverride(data) ==
    IF data = NoData THEN data
    ELSE [data EXCEPT !.goal = GOAL_OVERRIDE]

\* ------------------------------------------------- the Set of subscribers
\* ECMAScript keeps a Set as a list of entries in insertion order; delete
\* replaces the entry by empty, add appends, and a running iterator walks the
\* list by index, so it skips deleted entries and reaches appended ones.
SetHas(S, x) == \E i \in DOMAIN S : S[i] = x
SetAdd(S, x) == IF SetHas(S, x) THEN S ELSE Append(S, x)
\* Mutant of SetDelete: the entry is cut out of the list under a running iterator.
SetDeleteCompacting(S, x) == SelectSeq(S, LAMBDA y : y # x)
SetDelete(S, x) == [i \in DOMAIN S |-> IF S[i] = x THEN Empty ELSE S[i]]
SetSize(S) == Cardinality({i \in DOMAIN S : S[i] # Empty})
SetMembers(S) == {S[i] : i \in {j \in DOMAIN S : S[j] # Empty}}
\* Without a running iterator the empty entries cannot be observed.
Compact(S) == SelectSeq(S, LAMBDA x : x # Empty)

\* ------------------------------------------------------ JavaScript values
\* The truth value of a number | null | undefined in a condition.
Truthy(v) == v # Null /\ v # Undefined /\ v # NaN /\ v # 0
IsNumber(v) == v # Null /\ v # Undefined /\ v # NaN
\* a - b on numbers; undefined - number is NaN.
Minus(a, b) == IF IsNumber(a) /\ IsNumber(b) THEN a - b ELSE NaN

\* ---------------------------------------------------------------- Init
\* An execution of checkForChanges: where it is suspended, and its locals
\* (epoch is a history field: the upstream epoch its response came from).
FetchTick == [pc |-> "fetch", data |-> NoData, changeAmount |-> 0, epoch |-> 0]
DoneTick == [FetchTick EXCEPT !.pc = "done"]
\* notify's frame: data and the iterator's index; atStart, invoked and removed
\* are history fields (the subscribers when the call began, the callbacks this
\* call invoked, in order, and the callbacks deleted during it).
NoNotify == [active |-> FALSE, data |-> NoData, idx |-> 0, tick |-> 0,
             atStart |-> {}, invoked |-> << >>, removed |-> {}]
NeverCalled == [n |-> 0, last |-> NoData]

Init ==
    /\ cachedData = NoData
    /\ lastSignatureCount = Null
    /\ monitorInterval = Null
    /\ timers = {}
    /\ nextTimer = 1
    /\ hasValidSupabase \in BOOLEAN
    /\ subscribers = << >>
    /\ handles = {}
    /\ ticks = << >>
    /\ notifying = NoNotify
    /\ history = << >>
    /\ upstream \in Counts
    /\ epoch = 0
    /\ lastFetch = NoData
    /\ calls = << >>
    /\ unsubscribed = {}
    /\ threw = {}
    /\ notifyLog = << >>
    /\ table = << >>
    /\ response = NoData
    /\ connectionCount = 0
    /\ monitoringStarted = FALSE
    /\ conns = << >>
    /\ statsCall = NoData
    /\ liveData = NoData
    /\ lastUpdated = Null
    /\ historicalData = << >>
    /\ inbox = << >>
    /\ calc = NoData
    /\ ws = Null
    /\ reconnectAttempts = 0
    /\ reconnectTimeout = Null
    /\ wsConnected = FALSE
    /\ sockets = << >>
    /\ wsTimers = [pending |-> {}, next |-> 1]
    /\ disconnected = FALSE

\* No job runs while the synchronous loop of notify is on the stack.
Idle == ~notifying.active

InFlight(t) == ticks[t].pc \in {"fetch", "save", "notify"}

\* ------------------------------------------------------- the environment
\* The petition's count changes upstream.
UpstreamChange ==
    /\ Idle
    /\ \E c \in Counts \ {upstream} : upstream' = c
    /\ epoch' = epoch + 1
    /\ UNCHANGED <<monitorVars, timerVars, subVars, hasValidSupabase, ticks,
                   notifying, lastFetch, apiVars, clientVars, wsVars, connVars>>

\* ------------------------------------------------------- checkForChanges
\* A call of checkForChanges runs to its first await, the fetch.
CallCheckForChanges == Append(ticks, FetchTick)

\* Mutant of NoChange: a recorded count of 0 is taken for "nothing recorded".
NoChangeTruthy(data) ==
    Truthy(lastSignatureCount) /\ data.signatureCount = lastSignatureCount

\* if (data.signatureCount === lastSignatureCount) return;
NoChange(data) == data.signatureCount = lastSignatureCount

\* const changeAmount = lastSignatureCount ? data.signatureCount - lastSignatureCount : 0;
ChangeAmount(data) ==
    IF Truthy(lastSignatureCount)
    THEN Minus(data.signatureCount, lastSignatureCount)
    ELSE 0

\* The row saveToSupabase inserts (epoch is a history field, not a column).
Row(data, changeAmount, e) ==
    [signature_count |-> data.signatureCount, goal |-> data.goal,
     change_amount |-> changeAmount, epoch |-> e]

\* subscriberManager.notify(data), up to the first iteration of its loop.
NotifyBegin(t, data) ==
    IF SetSize(subscribers) = 0
    THEN /\ notifying' = NoNotify
         /\ ticks' = [ticks EXCEPT ![t] = DoneTick]
    ELSE /\ notifying' = [NoNotify EXCEPT !.active = TRUE, !.data = data,
                                          !.tick = t,
                                          !.atStart = SetMembers(subscribers)]
         /\ ticks' = [ticks EXCEPT ![t] = [@ EXCEPT !.pc = "notify", !.data = data]]

\* Mutant of Apply: the recorded count is not updated with the snapshot.
ApplyCacheOnly(t, data, e) ==
    /\ UNCHANGED lastSignatureCount
    /\ cachedData' = data
    /\ notifyLog' = Append(notifyLog, [signatureCount |-> data.signatureCount,
                                       epoch |-> e])
    /\ NotifyBegin(t, data)

\* Mutant of Apply: the snapshot is recorded and cached, and notify is not called.
ApplyWithoutNotify(t, data, e) ==
    /\ lastSignatureCount' = data.signatureCount
    /\ cachedData' = data
    /\ notifyLog' = notifyLog
    /\ notifying' = NoNotify
    /\ ticks' = [ticks EXCEPT ![t] = DoneTick]

\* lastSignatureCount = data.signatureCount; cachedData = data; notify(data)
Apply(t, data, e) ==
    /\ lastSignatureCount' = data.signatureCount
    /\ cachedData' = data
    /\ notifyLog' = Append(notifyLog, [signatureCount |-> data.signatureCount,
                                       epoch |-> e])
    /\ NotifyBegin(t, data)

\* Mutant of FetchFail: the catch gives up and clears the interval.
FetchFailStopsTimer(t) ==
    /\ Idle
    /\ ticks[t].pc = "fetch"
    /\ ticks' = [ticks EXCEPT ![t] = DoneTick]
    /\ lastFetch' = NoData
    /\ timers' = timers \ {monitorInterval}
    /\ monitorInterval' = Null
    /\ UNCHANGED <<monitorVars, nextTimer, subVars, envVars, apiVars, clientVars, wsVars, connVars, notifying>>

\* fetch or response.json() rejects, or the body decodes to null (the read of
\* data.signatureCount then throws): the catch logs and the tick ends.
FetchFail(t) ==
    /\ Idle
    /\ ticks[t].pc = "fetch"
    /\ ticks' = [ticks EXCEPT ![t] = DoneTick]
    /\ lastFetch' = NoData
    /\ UNCHANGED <<monitorVars, timerVars, subVars, envVars, apiVars, clientVars, wsVars, connVars, notifying>>

\* The response is decoded to an object whose signatureCount is sc: the lines
\* of checkForChanges from applyGoalOverride to the await of saveToSupabase,
\* which does not suspend on I/O when the credentials are the placeholders.
Decoded(t, sc) ==
    /\ Idle
    /\ ticks[t].pc = "fetch"
    /\ \E g \in RawGoals :
         LET rawData == [signatureCount |-> sc, goal |-> g]
             data == applyGoalOverride(rawData)
             changeAmount == ChangeAmount(data)
         IN /\ lastFetch' = [rawData |-> rawData, recorded |-> lastSignatureCount]
            /\ IF NoChange(data)
               THEN /\ ticks' = [ticks EXCEPT ![t] = DoneTick]
                    /\ UNCHANGED <<monitorVars, notifying>>
               ELSE IF hasValidSupabase
               THEN /\ ticks' = [ticks EXCEPT ![t] =
                          [pc |-> "save", data |-> data,
                           changeAmount |-> changeAmount, epoch |-> epoch]]
                    /\ UNCHANGED <<monitorVars, notifying>>
               ELSE /\ Apply(t, data, epoch)
                    /\ UNCHANGED history
    /\ UNCHANGED <<timerVars, subVars, envVars, apiVars, clientVars, wsVars, connVars>>

\* The upstream answers with its current count.
FetchDone(t) == Decoded(t, upstream)

\* The upstream answers with an object that has no signatureCount.
FetchMalformed(t) == Decoded(t, Undefined)

\* checkForChanges of lib/dataMonitor.ts, the monitor without persistence, from
\* the decoded response on: the object is compared, cached and notified as
\* the upstream sent it.
LegacyFetchDone(t) ==
    /\ Idle
    /\ ticks[t].pc = "fetch"
    /\ \E g \in RawGoals :
         LET data == [signatureCount |-> upstream, goal |-> g]
         IN /\ lastFetch' = [rawData |-> data, recorded |-> lastSignatureCount]
            /\ IF NoChange(data)
               THEN /\ ticks' = [ticks EXCEPT ![t] = DoneTick]
                    /\ UNCHANGED <<monitorVars, notifying>>
               ELSE /\ Apply(t, data, epoch)
                    /\ UNCHANGED history
    /\ UNCHANGED <<timerVars, subVars, envVars, apiVars, clientVars, wsVars, connVars>>

\* export const getCurrentData = () => cachedData
getCurrentData == cachedData

\* Mutant of SaveDone: a failed insert ends the execution (the error reaches
\* the catch of checkForChanges).
SaveDoneAbortOnError(t) ==
    /\ Idle
    /\ ticks[t].pc = "save"
    /\ \E outcome \in {"ok", "error", "throw"} :
         IF outcome = "ok"
         THEN /\ history' = Append(history, Row(ticks[t].data, ticks[t].changeAmount,
                                                ticks[t].epoch))
              /\ Apply(t, ticks[t].data, ticks[t].epoch)
         ELSE /\ ticks' = [ticks EXCEPT ![t] = DoneTick]
              /\ UNCHANGED <<monitorVars, notifying>>
    /\ UNCHANGED <<timerVars, subVars, envVars, apiVars, clientVars, wsVars, connVars, lastFetch>>

\* The insert of saveToSupabase completes: with a row, with an error object,
\* or by throwing; the two failures are logged.
SaveDone(t) ==
    /\ Idle
    /\ ticks[t].pc = "save"
    /\ \E outcome \in {"ok", "error", "throw"} :
         history' = IF outcome = "ok"
                    THEN Append(history, Row(ticks[t].data, ticks[t].changeAmount,
                                             ticks[t].epoch))
                    ELSE history
    /\ Apply(t, ticks[t].data, ticks[t].epoch)
    /\ UNCHANGED <<timerVars, subVars, envVars, apiVars, clientVars, wsVars, connVars, lastFetch>>

\* ------------------------------------------------- start/stopMonitoring
\* Mutant of startMonitoring: without the guard on monitorInterval.
startMonitoringUnguarded ==
    /\ Idle
    /\ ticks' = CallCheckForChanges
    /\ monitorInterval' = nextTimer
    /\ timers' = timers \cup {nextTimer}
    /\ nextTimer' = nextTimer + 1
    /\ UNCHANGED <<monitorVars, subVars, envVars, apiVars, clientVars, wsVars, connVars, notifying, lastFetch>>

startMonitoring ==
    /\ Idle
    /\ IF monitorInterval # Null
       THEN UNCHANGED vars
       ELSE /\ ticks' = CallCheckForChanges
            /\ monitorInterval' = nextTimer
            /\ timers' = timers \cup {nextTimer}
            /\ nextTimer' = nextTimer + 1
            /\ UNCHANGED <<monitorVars, subVars, envVars, apiVars, clientVars, wsVars, connVars, notifying, lastFetch>>

\* Mutant of stopMonitoring: the executions in flight are abandoned.
stopMonitoringAborts ==
    /\ Idle
    /\ IF monitorInterval # Null
       THEN /\ timers' = timers \ {monitorInterval}
            /\ monitorInterval' = Null
            /\ ticks' = [t \in DOMAIN ticks |-> DoneTick]
            /\ UNCHANGED <<monitorVars, subVars, envVars, apiVars, clientVars, wsVars, connVars, notifying,
                           lastFetch, nextTimer>>
       ELSE UNCHANGED vars

stopMonitoring ==
    /\ Idle
    /\ IF monitorInterval # Null
       THEN /\ timers' = timers \ {monitorInterval}
            /\ monitorInterval' = Null
            /\ UNCHANGED <<monitorVars, subVars, envVars, apiVars, clientVars, wsVars, connVars, ticks, notifying,
                           lastFetch, nextTimer>>
       ELSE UNCHANGED vars

\* An interval timer fires: setInterval(checkForChanges, intervalMs).
TimerTick ==
    /\ Idle
    /\ timers # {}
    /\ ticks' = CallCheckForChanges
    /\ UNCHANGED <<monitorVars, timerVars, subVars, envVars, apiVars, clientVars, wsVars, connVars, notifying, lastFetch>>

\* ----------------------------------------------------- SubscriberManager
\* callback(data) is entered: the call is logged whether or not it throws.
Invoke(log, cb, data) == [log EXCEPT ![cb] = [n |-> @.n + 1, last |-> data]]

\* The closure the next subscribe call is given.
NewCallback == Len(calls) + 1

\* Mutant of subscribe: the cached snapshot is not delivered.
subscribeWithoutDelivery ==
    /\ Idle
    /\ subscribers' = SetAdd(subscribers, NewCallback)
    /\ calls' = Append(calls, NeverCalled)
    /\ handles' = handles \cup {NewCallback}
    /\ UNCHANGED <<monitorVars, timerVars, envVars, apiVars, clientVars, wsVars, connVars, ticks, notifying,
                   lastFetch, unsubscribed, threw>>

\* subscribe(callback) called by a request handler:
\*   this.subscribers.add(callback); cachedData && callback(cachedData);
\*   return () => {...}
\* A callback that throws here is not caught: subscribe does not return, so
\* the caller gets no unsubscribe function and the callback stays in the Set.
subscribe ==
    /\ Idle
    /\ subscribers' = SetAdd(subscribers, NewCallback)
    /\ IF cachedData # NoData
       THEN /\ calls' = Invoke(Append(calls, NeverCalled), NewCallback, cachedData)
            /\ \E throws \in BOOLEAN :
                 handles' = IF throws THEN handles ELSE handles \cup {NewCallback}
       ELSE /\ calls' = Append(calls, NeverCalled)
            /\ handles' = handles \cup {NewCallback}
    /\ UNCHANGED <<monitorVars, timerVars, envVars, apiVars, clientVars, wsVars, connVars, ticks, notifying,
                   lastFetch, unsubscribed, threw>>

\* The function subscribe returned is called by its owner (any number of
\* times): this.subscribers.delete(callback).
unsubscribe(cb) ==
    /\ Idle
    /\ cb \in handles
    /\ subscribers' = Compact(SetDelete(subscribers, cb))
    /\ unsubscribed' = unsubscribed \cup {cb}
    /\ UNCHANGED <<monitorVars, timerVars, envVars, apiVars, clientVars, wsVars, connVars, ticks, notifying,
                   lastFetch, handles, calls, threw>>

\* The entries the iterator of notify's for-of has still to visit.
Pending == {i \in DOMAIN subscribers : i > notifying.idx /\ subscribers[i] # Empty}

NextIndex == CHOOSE i \in Pending : \A j \in Pending : i <= j

\* notify's frame after the callback cb at entry i was invoked.
Visited(i, cb, gone) ==
    [notifying EXCEPT !.idx = i,
                      !.invoked = Append(@, cb),
                      !.removed = @ \cup gone]

\* One iteration of notify's loop: try { callback(data) } where the callback
\* returns.
NotifyReturn ==
    /\ notifying.active /\ Pending # {}
    /\ LET i == NextIndex
           cb == subscribers[i]
       IN /\ calls' = Invoke(calls, cb, notifying.data)
          /\ notifying' = Visited(i, cb, {})
    /\ UNCHANGED <<monitorVars, timerVars, envVars, apiVars, clientVars, wsVars, connVars, ticks, lastFetch,
                   subscribers, handles, unsubscribed, threw>>

\* Mutant of NotifyThrow: the catch does not delete the callback.
NotifyThrowKept ==
    /\ notifying.active /\ Pending # {}
    /\ LET i == NextIndex
           cb == subscribers[i]
       IN /\ calls' = Invoke(calls, cb, notifying.data)
          /\ threw' = threw \cup {cb}
          /\ notifying' = Visited(i, cb, {})
    /\ UNCHANGED <<monitorVars, timerVars, envVars, apiVars, clientVars, wsVars, connVars, ticks, lastFetch,
                   subscribers, handles, unsubscribed>>

\* Mutant of NotifyThrow: the try encloses the loop, so the first exception
\* ends the iteration.
NotifyThrowAborts ==
    /\ notifying.active /\ Pending # {}
    /\ LET i == NextIndex
           cb == subscribers[i]
       IN /\ calls' = Invoke(calls, cb, notifying.data)
          /\ subscribers' = SetDelete(subscribers, cb)
          /\ threw' = threw \cup {cb}
          /\ notifying' = Visited(Len(subscribers), cb, {cb})
    /\ UNCHANGED <<monitorVars, timerVars, envVars, apiVars, clientVars, wsVars, connVars, ticks, lastFetch,
                   handles, unsubscribed>>

\* One iteration where the callback throws: catch { this.subscribers.delete(callback) }
NotifyThrow ==
    /\ notifying.active /\ Pending # {}
    /\ LET i == NextIndex
           cb == subscribers[i]
       IN /\ calls' = Invoke(calls, cb, notifying.data)
          /\ subscribers' = SetDelete(subscribers, cb)
          /\ threw' = threw \cup {cb}
          /\ notifying' = Visited(i, cb, {cb})
    /\ UNCHANGED <<monitorVars, timerVars, envVars, apiVars, clientVars, wsVars, connVars, ticks, lastFetch,
                   handles, unsubscribed>>

\* Mutant of NotifyUnsubscribe: notify iterates a copy of the Set, which the
\* deletion does not reach.
NotifyUnsubscribeSnapshot ==
    /\ notifying.active /\ Pending # {}
    /\ LET i == NextIndex
           cb == subscribers[i]
       IN \E o \in handles :
            /\ calls' = Invoke(calls, cb, notifying.data)
            /\ unsubscribed' = unsubscribed \cup {o}
            /\ notifying' = Visited(i, cb, {o})
    /\ UNCHANGED <<monitorVars, timerVars, envVars, apiVars, clientVars, wsVars, connVars, ticks, lastFetch,
                   subscribers, handles, threw>>

\* One iteration where the callback calls an unsubscribe function (its own or
\* another subscriber's) and returns.
NotifyUnsubscribe ==
    /\ notifying.active /\ Pending # {}
    /\ LET i == NextIndex
           cb == subscribers[i]
       IN \E o \in handles :
            /\ calls' = Invoke(calls, cb, notifying.data)
            /\ subscribers' = SetDelete(subscribers, o)
            /\ unsubscribed' = unsubscribed \cup {o}
            /\ notifying' = Visited(i, cb, {o})
    /\ UNCHANGED <<monitorVars, timerVars, envVars, apiVars, clientVars, wsVars, connVars, ticks, lastFetch,
                   handles, threw>>

\* One iteration where the callback subscribes a new closure.  cachedData is
\* set, so subscribe invokes the new callback at once; when that one throws,
\* the exception leaves subscribe and the outer callback, and notify's catch
\* deletes the outer callback.
NotifySubscribe ==
    /\ notifying.active /\ Pending # {}
    /\ LET i == NextIndex
           cb == subscribers[i]
           new == NewCallback
           entered == Invoke(Append(calls, NeverCalled), cb, notifying.data)
       IN /\ calls' = IF cachedData # NoData
                      THEN Invoke(entered, new, cachedData) ELSE entered
          /\ \E throws \in {b \in BOOLEAN : b => cachedData # NoData} :
               IF throws
               THEN /\ subscribers' = SetDelete(SetAdd(subscribers, new), cb)
                    /\ handles' = handles
                    /\ threw' = threw \cup {cb}
                    /\ notifying' = Visited(i, cb, {cb})
               ELSE /\ subscribers' = SetAdd(subscribers, new)
                    /\ handles' = handles \cup {new}
                    /\ threw' = threw
                    /\ notifying' = Visited(i, cb, {})
    /\ UNCHANGED <<monitorVars, timerVars, envVars, apiVars, clientVars, wsVars, connVars, ticks, lastFetch,
                   unsubscribed>>

\* The iterator is exhausted: notify returns, and checkForChanges with it.
NotifyEnd ==
    /\ notifying.active /\ Pending = {}
    /\ notifying' = NoNotify
    /\ subscribers' = Compact(subscribers)
    /\ ticks' = [ticks EXCEPT ![notifying.tick] = DoneTick]
    /\ UNCHANGED <<monitorVars, timerVars, envVars, apiVars, clientVars, wsVars, connVars, lastFetch, handles,
                   calls, unsubscribed, threw>>

\* ------------------------------------------------ the live-data endpoint
\* The closure of one start(controller) call: isConnected, whether the const
\* unsubscribe has been initialised, and the heartbeat timer ("none" until
\* setInterval is reached); cb is its callback in the SubscriberManager.
\* decrements, writes and cleanupThrew are history fields: how often this
\* connection executed connectionCount--, how many chunks controller.enqueue
\* accepted, and whether a cleanup call ended in an exception.
NewConnection(cb) ==
    [cb |-> cb, isConnected |-> TRUE, unsubscribe |-> "set", heartbeat |-> "active",
     decrements |-> 0, writes |-> 0, cleanupThrew |-> FALSE]

\* Mutant of cleanup: without the guard on isConnected.
cleanupUnguarded(conn) ==
    [conn EXCEPT !.isConnected = FALSE,
                 !.decrements = @ + 1,
                 !.heartbeat = IF @ = "active" THEN "cleared" ELSE @]

\* cleanup() of a connection whose start has returned: the closure after it.
\* (connectionCount and the Set follow the closure in the actions below.)
cleanup(conn) ==
    IF ~conn.isConnected THEN conn
    ELSE [conn EXCEPT !.isConnected = FALSE,
                      !.decrements = @ + 1,
                      !.heartbeat = IF @ = "active" THEN "cleared" ELSE @]

\* Mutant of send: without the guard on isConnected.
sendUnguarded(conn, enqueued) ==
    IF enqueued THEN [conn EXCEPT !.writes = @ + 1]
    ELSE cleanup(conn)

\* send(data): enqueued tells whether controller.enqueue returned or threw.
send(conn, enqueued) ==
    IF ~conn.isConnected THEN conn
    ELSE IF enqueued THEN [conn EXCEPT !.writes = @ + 1]
    ELSE cleanup(conn)

\* cleanup ran in the step from closure old to closure new.
CleanedUp(old, new) == new.decrements > old.decrements

\* The connection whose callback is cb.
ConnectionOf(cb) == CHOOSE c \in DOMAIN conns : conns[c].cb = cb

\* GET of the live-data endpoint: the first request starts the monitor, then
\* start(controller) runs: connectionCount++, subscribeToDataChanges (which
\* calls the callback at once when a snapshot is cached), setInterval.
\* When the write of the cached snapshot fails, cleanup runs while the const
\* unsubscribe is not initialised and heartbeat not yet created: the read of
\* unsubscribe throws a ReferenceError out of start (build "tdz"), or yields
\* undefined when the build has turned const into var (build "var"), and
\* then subscribe returns and the heartbeat is created after cleanup.
GET_live_data ==
    /\ Idle
    /\ monitoringStarted' = TRUE
    /\ IF ~monitoringStarted /\ monitorInterval = Null
       THEN /\ ticks' = CallCheckForChanges
            /\ monitorInterval' = nextTimer
            /\ timers' = timers \cup {nextTimer}
            /\ nextTimer' = nextTimer + 1
       ELSE UNCHANGED <<ticks, timerVars>>
    /\ subscribers' = SetAdd(subscribers, NewCallback)
    /\ IF cachedData = NoData
       THEN /\ calls' = Append(calls, NeverCalled)
            /\ handles' = handles \cup {NewCallback}
            /\ conns' = Append(conns, NewConnection(NewCallback))
            /\ connectionCount' = connectionCount + 1
       ELSE /\ calls' = Invoke(Append(calls, NeverCalled), NewCallback, cachedData)
            /\ \E enqueued \in BOOLEAN :
                 IF enqueued
                 THEN /\ handles' = handles \cup {NewCallback}
                      /\ conns' = Append(conns, [NewConnection(NewCallback)
                                                  EXCEPT !.writes = 1])
                      /\ connectionCount' = connectionCount + 1
                 ELSE /\ connectionCount' = connectionCount
                      /\ \E build \in {"tdz", "var"} :
                           IF build = "tdz"
                           THEN /\ handles' = handles
                                /\ conns' = Append(conns,
                                     [NewConnection(NewCallback) EXCEPT
                                        !.isConnected = FALSE, !.decrements = 1,
                                        !.unsubscribe = "tdz", !.heartbeat = "none",
                                        !.cleanupThrew = TRUE])
                           ELSE /\ handles' = handles \cup {NewCallback}
                                /\ conns' = Append(conns,
                                     [NewConnection(NewCallback) EXCEPT
                                        !.isConnected = FALSE, !.decrements = 1])
    /\ UNCHANGED <<monitorVars, envVars, apiVars, clientVars, wsVars, notifying, lastFetch,
                   unsubscribed, threw>>

\* Mutant of Heartbeat: heartbeats start with the first snapshot.
HeartbeatOnlyAfterData(c) ==
    /\ Idle
    /\ cachedData # NoData
    /\ conns[c].heartbeat = "active"
    /\ \E enqueued \in {b \in BOOLEAN : b => conns[c].writes < StreamWrites} :
         LET conn == send(conns[c], enqueued)
         IN /\ conns' = [conns EXCEPT ![c] = conn]
            /\ connectionCount' = connectionCount - (conn.decrements - conns[c].decrements)
            /\ IF CleanedUp(conns[c], conn)
               THEN /\ subscribers' = Compact(SetDelete(subscribers, conn.cb))
                    /\ unsubscribed' = unsubscribed \cup {conn.cb}
               ELSE UNCHANGED <<subscribers, unsubscribed>>
    /\ UNCHANGED <<monitorVars, timerVars, envVars, apiVars, clientVars, wsVars, ticks, notifying,
                   lastFetch, handles, calls, threw, monitoringStarted>>

\* The heartbeat timer of connection c fires: send(heartbeat).
Heartbeat(c) ==
    /\ Idle
    /\ conns[c].heartbeat = "active"
    /\ \E enqueued \in {b \in BOOLEAN : b => conns[c].writes < StreamWrites} :
         LET conn == send(conns[c], enqueued)
         IN /\ conns' = [conns EXCEPT ![c] = conn]
            /\ connectionCount' = connectionCount - (conn.decrements - conns[c].decrements)
            /\ IF CleanedUp(conns[c], conn)
               THEN /\ subscribers' = Compact(SetDelete(subscribers, conn.cb))
                    /\ unsubscribed' = unsubscribed \cup {conn.cb}
               ELSE UNCHANGED <<subscribers, unsubscribed>>
    /\ UNCHANGED <<monitorVars, timerVars, envVars, apiVars, clientVars, wsVars, ticks, notifying,
                   lastFetch, handles, calls, threw, monitoringStarted>>

\* Mutant of Close: the last connection to close stops the monitor.
CloseStopsPoller(c) ==
    /\ Idle
    /\ conns[c].unsubscribe = "set"
    /\ LET conn == cleanup(conns[c])
       IN /\ conns' = [conns EXCEPT ![c] = conn]
          /\ connectionCount' = connectionCount - (conn.decrements - conns[c].decrements)
          /\ IF CleanedUp(conns[c], conn)
             THEN /\ subscribers' = Compact(SetDelete(subscribers, conn.cb))
                  /\ unsubscribed' = unsubscribed \cup {conn.cb}
             ELSE UNCHANGED <<subscribers, unsubscribed>>
          /\ IF connectionCount' = 0
             THEN /\ timers' = {}
                  /\ monitorInterval' = Null
                  /\ UNCHANGED nextTimer
             ELSE UNCHANGED timerVars
    /\ UNCHANGED <<monitorVars, envVars, apiVars, clientVars, wsVars, ticks, notifying,
                   lastFetch, handles, calls, threw, monitoringStarted>>

\* cleanup(), the function start returned, is called by the owner of the
\* stream (any number of times).
Close(c) ==
    /\ Idle
    /\ conns[c].unsubscribe = "set"
    /\ LET conn == cleanup(conns[c])
       IN /\ conns' = [conns EXCEPT ![c] = conn]
          /\ connectionCount' = connectionCount - (conn.decrements - conns[c].decrements)
          /\ IF CleanedUp(conns[c], conn)
             THEN /\ subscribers' = Compact(SetDelete(subscribers, conn.cb))
                  /\ unsubscribed' = unsubscribed \cup {conn.cb}
             ELSE UNCHANGED <<subscribers, unsubscribed>>
    /\ UNCHANGED <<monitorVars, timerVars, envVars, apiVars, clientVars, wsVars, ticks, notifying,
                   lastFetch, handles, calls, threw, monitoringStarted>>

\* One iteration of notify's loop on the callback of a connection:
\* send(data: newData); the callback never throws.
NotifyConnection ==
    /\ notifying.active /\ Pending # {}
    /\ LET i == NextIndex
           cb == subscribers[i]
           c == ConnectionOf(cb)
       IN \E enqueued \in BOOLEAN :
            LET conn == send(conns[c], enqueued)
            IN /\ calls' = Invoke(calls, cb, notifying.data)
               /\ conns' = [conns EXCEPT ![c] = conn]
               /\ connectionCount' = connectionCount - (conn.decrements - conns[c].decrements)
               /\ IF CleanedUp(conns[c], conn)
                  THEN /\ subscribers' = SetDelete(subscribers, cb)
                       /\ unsubscribed' = unsubscribed \cup {cb}
                       /\ notifying' = Visited(i, cb, {cb})
                  ELSE /\ UNCHANGED <<subscribers, unsubscribed>>
                       /\ notifying' = Visited(i, cb, {})
    /\ UNCHANGED <<monitorVars, timerVars, envVars, apiVars, clientVars, wsVars, ticks, lastFetch,
                   handles, threw, monitoringStarted>>

\* ------------------------------------------------ the history endpoints
\* url.searchParams.get('hours'): no parameter, or its text.
HoursParams == {"absent", "all", "1", "48"}
\* The goals a stored row may carry, and how many hours old a row is when the
\* request is served.
StoredGoals == {UPSTREAM_GOAL, GOAL_OVERRIDE}
RowAges == {2, 30}

\* parseInt(hours) on the texts above.
ParseInt(h) ==
    CASE h = "1" -> 1
      [] h = "24" -> 24
      [] h = "48" -> 48
      [] OTHER -> NaN

\* .gte('timestamp', new Date(Date.now() - n * 60 * 60 * 1000).toISOString())
Gte(rows, n) == SelectSeq(rows, LAMBDA r : r.age <= n)

\* applyGoalOverride on an array: data.map(item => ({...item, goal: GOAL_OVERRIDE}))
applyGoalOverrideArray(data) ==
    [i \in DOMAIN data |-> [data[i] EXCEPT !.goal = GOAL_OVERRIDE]]

Failed == [status |-> 500, data |-> << >>]
Ok(rows) == [status |-> 200, data |-> rows]

\* GET of the history endpoint that filters only when hours is given and is
\* not 'all', and overrides the goal row by row.
GET_part_000(h, error) ==
    IF h # "absent" /\ h # "all" /\ ParseInt(h) = NaN THEN Failed
    ELSE IF error THEN Failed
    ELSE LET data == IF h # "absent" /\ h # "all"
                     THEN Gte(table, ParseInt(h)) ELSE table
         IN Ok([i \in DOMAIN data |->
                 [data[i] EXCEPT !.goal =
                    applyGoalOverride([goal |-> data[i].goal]).goal]])

\* GET of the history endpoint that returns the rows as they are stored;
\* hours defaults to '24', and new Date(NaN).toISOString() throws.
GET_part_001(h, error) ==
    LET hours == IF h = "absent" THEN "24" ELSE h
    IN IF ParseInt(hours) = NaN \/ error THEN Failed
       ELSE Ok(Gte(table, ParseInt(hours)))

\* GET of the history endpoint that passes the rows to applyGoalOverride.
GET_part_002(h, error) ==
    LET hours == IF h = "absent" THEN "24" ELSE h
    IN IF ParseInt(hours) = NaN \/ error THEN Failed
       ELSE Ok(applyGoalOverrideArray(Gte(table, ParseInt(hours))))

\* A row is stored (by any version of the monitor): newer than the rows before.
StoreRow ==
    /\ Len(table) < MaxRows
    /\ \E sc \in Counts, g \in StoredGoals, a \in RowAges :
         /\ \A i \in DOMAIN table : table[i].age >= a
         /\ table' = Append(table, [signature_count |-> sc, goal |-> g,
                                     change_amount |-> 0, age |-> a])
    /\ UNCHANGED <<monitorVars, timerVars, subVars, envVars, connVars, clientVars, wsVars,
                   ticks, notifying, lastFetch, response, statsCall, calc>>

Served(r) ==
    /\ response' = r
    /\ UNCHANGED <<monitorVars, timerVars, subVars, envVars, connVars, clientVars, wsVars,
                   ticks, notifying, lastFetch, table, statsCall, calc>>

Request_part_000 == \E h \in HoursParams, error \in BOOLEAN : Served(GET_part_000(h, error))
Request_part_001 == \E h \in HoursParams, error \in BOOLEAN : Served(GET_part_001(h, error))
Request_part_002 == \E h \in HoursParams, error \in BOOLEAN : Served(GET_part_002(h, error))

\* ------------------------------------------- the statistics of the rows
\* A number of the statistics: the quotient num / den of two integers.  den
\* is 0 for Infinity (num > 0 divided by 0) and negative for a negative number.
ZeroRate == [num |-> 0, den |-> 1]

\* rate * k
Scaled(rate, k) == [num |-> rate.num * k, den |-> rate.den]

\* rate > p / q for integers p >= 0, q > 0
Exceeds(rate, p, q) ==
    IF rate.den = 0 THEN rate.num > 0
    ELSE IF rate.den > 0 THEN rate.num * q > p * rate.den
    ELSE rate.num * q < p * rate.den

\* Math.min
Min(a, b) == IF a <= b THEN a ELSE b

\* rows.reduce((sum, row) => sum + Math.max(0, row.change_amount), 0)
RECURSIVE SumPositive(_)
SumPositive(rows) ==
    IF Len(rows) = 0 THEN 0
    ELSE (IF rows[1].change_amount > 0 THEN rows[1].change_amount ELSE 0)
           + SumPositive(Tail(rows))

\* calculateSlidingWindowRate(data, timeWindowMs), per second; now is the
\* value of Date.now() in the call.
calculateSlidingWindowRate(data, timeWindowMs, now) ==
    IF Len(data) = 0 THEN ZeroRate
    ELSE LET windowStart == now - timeWindowMs
             windowData == SelectSeq(data, LAMBDA row : row.timestamp > windowStart)
         IN IF Len(windowData) = 0 THEN ZeroRate
            ELSE LET totalChanges == SumPositive(windowData)
                     actualWindowMs ==
                       Min(timeWindowMs, now - windowData[1].timestamp)
                 IN IF totalChanges > 0
                    THEN [num |-> totalChanges * 1000, den |-> actualWindowMs]
                    ELSE ZeroRate

\* toCEST(new Date(timestamp)).getHours()
HourOf(timestamp) == ((timestamp + OSLO_OFFSET) \div HOUR_WINDOW) % 24

\* hourlyData after the forEach over todayData: the keys are the hours of
\* the rows with a positive change.
HourlyData(todayData) ==
    LET positive == SelectSeq(todayData, LAMBDA row : row.change_amount > 0)
        hours == {HourOf(positive[i].timestamp) : i \in DOMAIN positive}
    IN [hour \in hours |->
          SumPositive(SelectSeq(positive, LAMBDA row : HourOf(row.timestamp) = hour))]

\* Mutant of PeakHour: a later bucket with the same count replaces the peak.
PeakHourLastWins(hourlyData) ==
    LET Scan[h \in -1..23] ==
          IF h = -1 THEN [peakHour |-> 0, peakCount |-> 0]
          ELSE IF h \in DOMAIN hourlyData /\ hourlyData[h] >= Scan[h - 1].peakCount
               THEN [peakHour |-> h, peakCount |-> hourlyData[h]]
               ELSE Scan[h - 1]
    IN Scan[23].peakHour

\* The loop over Object.entries(hourlyData), which lists integer keys in
\* ascending order: Scan[h] is peakHour and peakCount after the keys <= h.
PeakHour(hourlyData) ==
    LET Scan[h \in -1..23] ==
          IF h = -1 THEN [peakHour |-> 0, peakCount |-> 0]
          ELSE IF h \in DOMAIN hourlyData /\ hourlyData[h] > Scan[h - 1].peakCount
               THEN [peakHour |-> h, peakCount |-> hourlyData[h]]
               ELSE Scan[h - 1]
    IN Scan[23].peakHour

\* The if-chain that sets activityLevel.
ActivityLevel(secRate, minRate, hourlyRate) ==
    IF Exceeds(secRate, 1, 10) THEN "High"
    ELSE IF Exceeds(minRate, 1, 1) THEN "Medium"
    ELSE IF Exceeds(hourlyRate, 10, 1) THEN "Low"
    ELSE "Minimal"

\* Mutant of TimeToGoal: the rates are consulted before the remainder.
TimeToGoalRatesFirst(remaining, secRate, minRate, hourlyRate, dailyRate) ==
    IF Exceeds(secRate, 1, 10) THEN [text |-> "computed", rate |-> "secRate"]
    ELSE IF Exceeds(minRate, 1, 10) THEN [text |-> "computed", rate |-> "minRate"]
    ELSE IF Exceeds(hourlyRate, 1, 10) THEN [text |-> "computed", rate |-> "hourlyRate"]
    ELSE IF Exceeds(dailyRate, 0, 1) THEN [text |-> "computed", rate |-> "dailyRate"]
    ELSE IF remaining <= 0 THEN [text |-> "Goal reached!", rate |-> "none"]
    ELSE [text |-> "No recent activity", rate |-> "none"]

\* The if-chain that sets timeToGoal: the fixed texts, or which rate the
\* duration is computed from (the duration and its unit are left out).
TimeToGoal(remaining, secRate, minRate, hourlyRate, dailyRate) ==
    IF remaining <= 0 THEN [text |-> "Goal reached!", rate |-> "none"]
    ELSE IF Exceeds(secRate, 1, 10) THEN [text |-> "computed", rate |-> "secRate"]
    ELSE IF Exceeds(minRate, 1, 10) THEN [text |-> "computed", rate |-> "minRate"]
    ELSE IF Exceeds(hourlyRate, 1, 10) THEN [text |-> "computed", rate |-> "hourlyRate"]
    ELSE IF Exceeds(dailyRate, 0, 1) THEN [text |-> "computed", rate |-> "dailyRate"]
    ELSE [text |-> "No recent activity", rate |-> "none"]

\* The handler from the rates to the response, on the rows data (at least
\* one) with goal and currentSignatures resolved: its local variables.
\* (Every Date.now() of the handler is taken to return now.)
Statistics(data, now, goal, currentSignatures) ==
    LET secRate == calculateSlidingWindowRate(data, SEC_WINDOW, now)
        minRate == Scaled(calculateSlidingWindowRate(data, MIN_WINDOW, now), 60)
        hourlyRate == Scaled(calculateSlidingWindowRate(data, HOUR_WINDOW, now), 3600)
        dailyRate == Scaled(calculateSlidingWindowRate(data, DAY_WINDOW, now), 86400)
        dayAgo == now - DAY_WINDOW
        todayData == SelectSeq(data, LAMBDA row : row.timestamp > dayAgo)
    IN [data |-> data, now |-> now, goal |-> goal,
        currentSignatures |-> currentSignatures,
        secRate |-> secRate, minRate |-> minRate, hourlyRate |-> hourlyRate,
        dailyRate |-> dailyRate,
        totalToday |-> SumPositive(todayData),
        peakHour |-> PeakHour(HourlyData(todayData)),
        activityLevel |-> ActivityLevel(secRate, minRate, hourlyRate),
        timeToGoal |-> TimeToGoal(goal - currentSignatures, secRate, minRate,
                                  hourlyRate, dailyRate)]

\* The rows a query may return, in ascending order of timestamp: at the
\* lower bounds of the windows, inside them, at now and after it (the
\* timestamps are set by the database), and with changes of either sign.
Offsets == {0 - 90000000, 0 - DAY_WINDOW, 0 - 7200000, 0 - HOUR_WINDOW, 0 - MIN_WINDOW,
            0 - SEC_WINDOW, 0 - 10000, 0, 1000}
Changes == {0 - 1, 0, 1, 2}
StatRows == [timestamp : {NOW + o : o \in Offsets}, change_amount : Changes]
RECURSIVE Ascending(_)
Ascending(n) ==
    IF n = 0 THEN {<< >>}
    ELSE Ascending(n - 1) \cup
           {Append(rows, row) : rows \in {r \in Ascending(n - 1) : Len(r) = n - 1},
                                row \in StatRows}
SortedByTimestamp(rows) ==
    \A i \in 1..(Len(rows) - 1) : rows[i].timestamp <= rows[i + 1].timestamp
\* goal and currentSignatures: short of the goal, at it, and past it.
Remainders == {0 - 1, 0, 1}

\* The statistics are computed for a result of the query (once in a
\* behaviour: the computation keeps no state).
ComputeStatistics ==
    /\ calc = NoData
    /\ \E data \in {rows \in Ascending(MaxStatRows) :
                      Len(rows) > 0 /\ SortedByTimestamp(rows)},
          remaining \in Remainders :
         calc' = Statistics(data, NOW, GOAL_OVERRIDE, GOAL_OVERRIDE - remaining)
    /\ UNCHANGED <<monitorVars, timerVars, subVars, envVars, connVars, clientVars, wsVars,
                   ticks, notifying, lastFetch, table, response, statsCall>>

\* --------------------------------------------------- the stats endpoint
\* The locals of the GET handler of the stats endpoint: currentLiveData is
\* read before the query is awaited; rawData and error are the result of the
\* query, and table is a history field: the rows stored when it ran.
NewStatsCall(live) ==
    [currentLiveData |-> live, rawData |-> << >>, error |-> FALSE,
     table |-> << >>, done |-> FALSE]

StatsFailed == [status |-> 500, body |-> [error |-> "Failed to calculate stats"]]

\* The handler after the query: the catch answers 500 when the query reports
\* an error; an empty result is answered from the live snapshot; otherwise
\* currentSignatures and goal are resolved between the live snapshot and the
\* latest row, and the statistics computed from the rows, whose timestamp is
\* their age before NOW.  (The rounded rates are not part of the body here.)
GET_stats(currentLiveData, rawData, error) ==
    IF error THEN StatsFailed
    ELSE IF Len(rawData) = 0
    THEN [status |-> 200,
          body |-> [currentSignatures |->
                      IF currentLiveData # NoData /\ Truthy(currentLiveData.signatureCount)
                      THEN currentLiveData.signatureCount ELSE 0,
                    goal |-> IF currentLiveData # NoData /\ Truthy(currentLiveData.goal)
                             THEN currentLiveData.goal ELSE FALLBACK_GOAL,
                    peakHour |-> 0,
                    totalToday |-> 0,
                    timeToGoal |-> [text |-> "No data", rate |-> "none"],
                    activityLevel |-> "None"]]
    ELSE LET data == [i \in DOMAIN rawData |->
                        [rawData[i] EXCEPT !.goal =
                           applyGoalOverride([goal |-> rawData[i].goal]).goal]]
             latestDbEntry == data[Len(data)]
             currentSignatures ==
               IF /\ currentLiveData # NoData
                  /\ Truthy(currentLiveData.signatureCount)
                  /\ currentLiveData.signatureCount >= latestDbEntry.signature_count
               THEN currentLiveData.signatureCount
               ELSE latestDbEntry.signature_count
             goal == IF currentLiveData # NoData /\ Truthy(currentLiveData.goal)
                     THEN currentLiveData.goal ELSE latestDbEntry.goal
             stats == Statistics([i \in DOMAIN data |->
                                    [timestamp |-> NOW - data[i].age * HOUR_WINDOW,
                                     change_amount |-> data[i].change_amount]],
                                 NOW, goal, currentSignatures)
         IN [status |-> 200,
             body |-> [currentSignatures |-> currentSignatures,
                       goal |-> goal,
                       peakHour |-> stats.peakHour,
                       totalToday |-> stats.totalToday,
                       timeToGoal |-> stats.timeToGoal,
                       activityLevel |-> stats.activityLevel]]

\* A request to the stats endpoint runs to its await: getCurrentData() has
\* been read, the query is sent.  (One request at a time: the handler keeps
\* no state between requests.)
StatsRequest ==
    /\ Idle
    /\ IF statsCall = NoData THEN TRUE ELSE statsCall.done
    /\ statsCall' = NewStatsCall(getCurrentData)
    /\ UNCHANGED <<monitorVars, timerVars, subVars, envVars, connVars, clientVars, wsVars,
                   ticks, notifying, lastFetch, table, response, calc>>

\* The query completes, with the rows of the last 25 hours or with an error,
\* and the handler answers.
StatsQueryDone ==
    /\ Idle
    /\ statsCall # NoData /\ ~statsCall.done
    /\ \E error \in BOOLEAN :
         LET rawData == IF error THEN << >> ELSE Gte(table, STATS_WINDOW_HOURS)
         IN /\ statsCall' = [statsCall EXCEPT !.rawData = rawData, !.error = error,
                                               !.table = table, !.done = TRUE]
            /\ response' = GET_stats(statsCall.currentLiveData, rawData, error)
    /\ UNCHANGED <<monitorVars, timerVars, subVars, envVars, connVars, clientVars, wsVars,
                   ticks, notifying, lastFetch, table, calc>>

\* ------------------------------------------------ the dashboard's stream
\* The events the live-data endpoint writes: a heartbeat has a type and no
\* data, an update has data (a snapshot) and no type.
Times == 1..2
HeartbeatEvent(ts) == [type |-> "heartbeat", data |-> NoData, timestamp |-> ts]
UpdateEvent(snapshot, ts) == [type |-> "undefined", data |-> snapshot, timestamp |-> ts]
Events ==
    {HeartbeatEvent(ts) : ts \in Times}
      \cup {UpdateEvent([signatureCount |-> sc, goal |-> GOAL_OVERRIDE], ts) :
              sc \in Counts, ts \in Times}

\* A HistoricalEntry of the dashboard (its timestamp, read from the browser's
\* clock, is left out).
Entry(signature_count, goal, change_amount) ==
    [signature_count |-> signature_count, goal |-> goal,
     change_amount |-> change_amount]

\* historicalData.slice(-MAX_HISTORICAL_ENTRIES) when the array is longer.
Capped(entries) ==
    IF Len(entries) > MAX_HISTORICAL_ENTRIES
    THEN SubSeq(entries, Len(entries) - MAX_HISTORICAL_ENTRIES + 1, Len(entries))
    ELSE entries

\* The handler from `liveData = message.data` on, for a message with data.
ApplyUpdate(message) ==
    /\ liveData' = message.data
    /\ lastUpdated' = message.timestamp
    /\ LET n == Len(historicalData)
           hasNewSignatures ==
             n = 0 \/ message.data.signatureCount # historicalData[n].signature_count
           changeAmount ==
             IF n > 0
             THEN message.data.signatureCount - historicalData[n].signature_count
             ELSE 0
       IN historicalData' =
            IF hasNewSignatures
            THEN Capped(Append(historicalData,
                               Entry(message.data.signatureCount, message.data.goal,
                                     changeAmount)))
            ELSE historicalData

\* Mutant of onmessage: without the first line; for a message without data
\* the handler assigns liveData and lastUpdated and then throws on the read
\* of message.data.signatureCount.
onmessageUnguarded(message) ==
    IF message.data = NoData
    THEN /\ liveData' = NoData
         /\ lastUpdated' = message.timestamp
         /\ UNCHANGED historicalData
    ELSE ApplyUpdate(message)

\* eventSource.onmessage of routes/+page.svelte:
\*   if (!message.data || message.type === 'heartbeat') return;
onmessage(message) ==
    IF message.data = NoData \/ message.type = "heartbeat"
    THEN UNCHANGED <<liveData, lastUpdated, historicalData>>
    ELSE ApplyUpdate(message)

\* eventSource.onmessage of the earlier dashboard: if (!message.data) return;
onmessage_part_003(message) ==
    IF message.data = NoData
    THEN UNCHANGED <<liveData, lastUpdated, historicalData>>
    ELSE ApplyUpdate(message)

\* The EventSource receives an event and calls onmessage.
Receive ==
    \E message \in Events :
      /\ inbox' = Append(inbox, message)
      /\ onmessage(message)
      /\ UNCHANGED <<monitorVars, timerVars, subVars, envVars, apiVars, connVars,
                     wsVars, ticks, notifying, lastFetch>>

Receive_part_003 ==
    \E message \in Events :
      /\ inbox' = Append(inbox, message)
      /\ onmessage_part_003(message)
      /\ UNCHANGED <<monitorVars, timerVars, subVars, envVars, apiVars, connVars,
                     wsVars, ticks, notifying, lastFetch>>

\* fetchHistoricalData after its awaits: /api/history?hours=all answered by
\* the endpoint that accepts 'all'; the array replaces historicalData on the
\* first load and when it is longer.
fetchHistoricalData ==
    /\ \E error \in BOOLEAN :
         LET result == GET_part_000("all", error)
             data == [i \in DOMAIN result.data |->
                        Entry(result.data[i].signature_count, result.data[i].goal,
                              result.data[i].change_amount)]
         IN historicalData' =
              IF result.status = 200
                 /\ (Len(historicalData) = 0 \/ Len(data) > Len(historicalData))
              THEN data ELSE historicalData
    /\ UNCHANGED <<monitorVars, timerVars, subVars, envVars, apiVars, connVars,
                   wsVars, ticks, notifying, lastFetch, liveData, lastUpdated, inbox>>

\* ------------------------------------------------------ WebSocketStore
\* The state of the rest of the program.
otherVars == <<monitorVars, timerVars, subVars, envVars, apiVars, connVars, clientVars,
               ticks, notifying, lastFetch>>

\* clearTimeout(this.reconnectTimeout)
ClearTimeout == [wsTimers EXCEPT !.pending = @ \ {reconnectTimeout}]

\* Mutant of scheduleReconnect: without the limit on reconnectAttempts.
scheduleReconnectUnlimited(timeout, pendingTimers) ==
    IF timeout # Null
    THEN /\ reconnectAttempts' = reconnectAttempts
         /\ reconnectTimeout' = timeout
         /\ wsTimers' = pendingTimers
    ELSE /\ reconnectAttempts' = reconnectAttempts + 1
         /\ reconnectTimeout' = pendingTimers.next
         /\ wsTimers' = [pending |-> pendingTimers.pending \cup {pendingTimers.next},
                         next |-> (pendingTimers.next % WsTimerIds) + 1]

\* scheduleReconnect(), called when reconnectTimeout is timeout and the
\* pending timers are pendingTimers (the values its caller left).  At most
\* one timer is pending, so an id is free again when its turn comes.
scheduleReconnect(timeout, pendingTimers) ==
    IF reconnectAttempts >= maxReconnectAttempts \/ timeout # Null
    THEN /\ reconnectAttempts' = reconnectAttempts
         /\ reconnectTimeout' = timeout
         /\ wsTimers' = pendingTimers
    ELSE /\ reconnectAttempts' = reconnectAttempts + 1
         /\ reconnectTimeout' = pendingTimers.next
         /\ wsTimers' = [pending |-> pendingTimers.pending \cup {pendingTimers.next},
                         next |-> (pendingTimers.next % WsTimerIds) + 1]

\* The body of connect(): new WebSocket(wsUrl) returns a socket that is
\* connecting, which gets its handlers, or throws, and the catch schedules a
\* reconnect.  The socket this.ws had is neither closed nor detached.
connect(timeout, pendingTimers) ==
    \E throws \in BOOLEAN :
      IF throws
      THEN /\ scheduleReconnect(timeout, pendingTimers)
           /\ UNCHANGED <<ws, sockets>>
      ELSE /\ Len(sockets) < WsSockets
           /\ sockets' = Append(sockets, "connecting")
           /\ ws' = Len(sockets) + 1
           /\ reconnectAttempts' = reconnectAttempts
           /\ reconnectTimeout' = timeout
           /\ wsTimers' = pendingTimers

\* connect() called by the owner of the store (the first call is made when
\* the module is imported).
Connect ==
    /\ connect(reconnectTimeout, wsTimers)
    /\ disconnected' = FALSE
    /\ UNCHANGED <<wsConnected, otherVars>>

\* The reconnect timer fires: this.reconnectTimeout = null; this.connect()
TimeoutFires ==
    /\ reconnectTimeout # Null
    /\ reconnectTimeout \in wsTimers.pending
    /\ connect(Null, ClearTimeout)
    /\ UNCHANGED <<wsConnected, disconnected, otherVars>>

\* ws.onopen of socket s
onopen(s) ==
    /\ sockets[s] = "connecting"
    /\ sockets' = [sockets EXCEPT ![s] = "open"]
    /\ wsConnected' = TRUE
    /\ reconnectAttempts' = 0
    /\ reconnectTimeout' = Null
    /\ wsTimers' = IF reconnectTimeout # Null THEN ClearTimeout ELSE wsTimers
    /\ UNCHANGED <<ws, disconnected, otherVars>>

\* ws.onerror of socket s: the connection failed; its close event follows.
onerror(s) ==
    /\ sockets[s] \in {"connecting", "open"}
    /\ sockets' = [sockets EXCEPT ![s] = "failed"]
    /\ wsConnected' = FALSE
    /\ UNCHANGED <<ws, reconnectAttempts, reconnectTimeout, wsTimers, disconnected,
                   otherVars>>

\* ws.onclose of socket s: the socket was closed by the server, after an
\* error, or after close() was called on it.
onclose(s) ==
    /\ sockets[s] \in {"connecting", "open", "failed", "closing"}
    /\ sockets' = [sockets EXCEPT ![s] = "closed"]
    /\ wsConnected' = FALSE
    /\ scheduleReconnect(reconnectTimeout, wsTimers)
    /\ UNCHANGED <<ws, disconnected, otherVars>>

\* disconnect(): close() starts the closing handshake; the close event of
\* the socket is delivered later.
disconnect ==
    /\ reconnectTimeout' = Null
    /\ wsTimers' = IF reconnectTimeout # Null THEN ClearTimeout ELSE wsTimers
    /\ sockets' = IF ws # Null /\ sockets[ws] \in {"connecting", "open", "failed"}
                  THEN [sockets EXCEPT ![ws] = "closing"]
                  ELSE sockets
    /\ ws' = Null
    /\ wsConnected' = FALSE
    /\ disconnected' = TRUE
    /\ UNCHANGED <<reconnectAttempts, otherVars>>

\* ------------------------------------------------------------------ claims
Count(seq, x) == Cardinality({i \in DOMAIN seq : seq[i] = x})

\* C1: at most one execution of checkForChanges is in flight (between the
\* start of its fetch and the return of its notify) at any time.
C1_AtMostOneTickInFlight ==
    Cardinality({t \in DOMAIN ticks : InFlight(t)}) <= 1

\* C2: one upstream change (the count c reached in upstream epoch e) never
\* produces two persisted rows, nor two notify calls.
C2_OneRowOneNotifyPerChange ==
    /\ \A i, j \in DOMAIN history :
         (/\ i < j
          /\ history[i].epoch = history[j].epoch)
         => history[i].signature_count # history[j].signature_count
    /\ \A i, j \in DOMAIN notifyLog :
         (/\ i < j
          /\ notifyLog[i].epoch = notifyLog[j].epoch)
         => notifyLog[i].signatureCount # notifyLog[j].signatureCount

\* C3: when an execution detects a change of a numeric count and goes on to
\* persist it, the changeAmount it persists is current - previous for every
\* recorded previous count (0 included), and 0 only when nothing was recorded.
C3_ChangeAmountIsDifference ==
    [][\A t \in DOMAIN ticks :
         (/\ ticks[t].pc = "fetch"
          /\ ticks'[t].pc = "save"
          /\ IsNumber(ticks'[t].data.signatureCount)
          /\ lastSignatureCount # Undefined)
         => ticks'[t].changeAmount =
              IF lastSignatureCount = Null THEN 0
              ELSE ticks'[t].data.signatureCount - lastSignatureCount]_vars

\* C4: an execution whose decoded response carries the signatureCount that is
\* recorded in lastSignatureCount ends there: no row is inserted, no notify is
\* called, no callback is invoked, and cachedData and lastSignatureCount stay
\* as they are.
C4_NoChangeNoEffect ==
    [][\A t \in DOMAIN ticks :
         (/\ ticks[t].pc = "fetch"
          /\ ticks'[t].pc # "fetch"
          /\ lastFetch' # NoData
          /\ lastFetch'.rawData.signatureCount = lastSignatureCount)
         => /\ UNCHANGED <<cachedData, lastSignatureCount, history, notifyLog, calls>>
            /\ ticks'[t].pc = "done"
            /\ ~notifying'.active]_vars

\* The last response decoded carried the count that one earlier execution had
\* recorded and notified to a subscriber, and every execution has ended
\* without a second notify.
C4_Witness ==
    /\ Len(ticks) = 2 /\ ticks[1].pc = "done" /\ ticks[2].pc = "done"
    /\ Len(notifyLog) = 1
    /\ lastFetch # NoData
    /\ lastFetch.rawData.signatureCount = lastFetch.recorded
    /\ lastFetch.recorded = lastSignatureCount
    /\ IsNumber(lastSignatureCount)
    /\ \E cb \in SetMembers(subscribers) : calls[cb].n = 1


\* The loop of the running notify has visited every entry and is about to return.
NotifyExhausted == notifying.active /\ Pending = {}

\* C5: once the unsubscribe function of a callback has been called, no step
\* invokes the callback (neither a later notify nor the one that was iterating
\* when it was called), and the callback stays out of the Set however often
\* the function is called; a call of the function takes nothing else out of
\* the Set, so a repeated call changes nothing.
C5_NoCallAfterUnsubscribe ==
    /\ [][\A cb \in unsubscribed : calls'[cb] = calls[cb]]_vars
    /\ [](\A cb \in unsubscribed : ~SetHas(subscribers, cb))
    /\ [][SetMembers(subscribers) \ SetMembers(subscribers')
            \subseteq (unsubscribed' \ unsubscribed) \cup (threw' \ threw)]_vars

\* A callback registered when notify began was unsubscribed by another
\* subscriber's callback before the loop reached it, and the loop has finished
\* without invoking it.
C5_Witness ==
    /\ NotifyExhausted
    /\ \E cb \in notifying.atStart \cap unsubscribed :
         /\ Count(notifying.invoked, cb) = 0
         /\ notifying.invoked # << >>

\* C6: a callback that threw during a notify is out of the Set from that step
\* on and is never invoked again, and every notify invokes each subscriber
\* that was registered when it began and was not deleted during it.
C6_ThrowerEvictedOthersServed ==
    /\ [](\A cb \in threw : ~SetHas(subscribers, cb))
    /\ [][\A cb \in threw : calls'[cb] = calls[cb]]_vars
    /\ [](NotifyExhausted =>
            \A cb \in notifying.atStart \ notifying.removed :
              Count(notifying.invoked, cb) >= 1 /\ calls[cb].last = notifying.data)

\* A later notify than the one in which a callback threw has finished its
\* loop: it invoked the other subscriber and not the evicted one.
C6_Witness ==
    /\ NotifyExhausted
    /\ Len(notifyLog) = 2
    /\ \E cb \in threw :
         /\ cb \notin notifying.removed
         /\ Count(notifying.invoked, cb) = 0
         /\ \E other \in notifying.atStart \ {cb} :
              Count(notifying.invoked, other) = 1 /\ calls[other].n >= 2

\* The callbacks that threw in the running notify.
ThrewNow == {cb \in threw : Count(notifying.invoked, cb) > 0}

\* C7: in a notify call in which a callback throws, every other subscriber
\* that was registered when the call began and was not deleted during it is
\* invoked exactly once with the snapshot, and the loop runs to its end.
C7_ThrowDoesNotBreakFanout ==
    /\ notifying.active /\ ThrewNow # {} =>
         \A cb \in notifying.atStart \ notifying.removed :
           Count(notifying.invoked, cb) + Cardinality({i \in Pending : subscribers[i] = cb}) = 1
    /\ NotifyExhausted /\ ThrewNow # {} =>
         \A cb \in notifying.atStart \ notifying.removed :
           calls[cb].last = notifying.data

\* The first callback of the loop threw and the loop went on to invoke the
\* second one.
C7_Witness ==
    /\ NotifyExhausted
    /\ Len(notifying.invoked) = 2
    /\ notifying.invoked[1] \in ThrewNow
    /\ notifying.invoked[2] \in notifying.atStart \ notifying.removed

\* The Set was changed while the running notify iterated it.
MutatedDuringNotify ==
    notifying.removed # {} \/ ~(SetMembers(subscribers) \subseteq notifying.atStart)

\* C8: when callbacks add or delete subscribers during a notify, no subscriber
\* that was registered when the call began is invoked twice, and none of them
\* that was not deleted is skipped.
C8_MutationSafeIteration ==
    /\ notifying.active /\ MutatedDuringNotify =>
         \A cb \in notifying.atStart : Count(notifying.invoked, cb) <= 1
    /\ NotifyExhausted /\ MutatedDuringNotify =>
         \A cb \in notifying.atStart \ notifying.removed :
           Count(notifying.invoked, cb) = 1

\* A callback deleted a subscriber during the loop, and the loop then invoked
\* a subscriber that comes after it in the Set.
C8_Witness ==
    /\ NotifyExhausted
    /\ notifying.removed # {}
    /\ \E i, j \in DOMAIN notifying.invoked :
         /\ i < j
         /\ notifying.invoked[j] \in notifying.atStart \ notifying.removed

\* C9: subscribe invokes the new callback exactly once, with cachedData, when
\* a snapshot is cached, and not at all when none is: whatever was notified
\* before is not delivered.
C9_SubscribeDeliversCurrentOnly ==
    [][Len(calls') = Len(calls) + 1 =>
         calls'[Len(calls')] =
           IF cachedData # NoData THEN [n |-> 1, last |-> cachedData]
           ELSE NeverCalled]_vars

\* Two different snapshots were notified, and a callback subscribed after
\* both has been invoked once, with the second.
C9_Witness ==
    /\ Idle
    /\ Len(notifyLog) = 2
    /\ notifyLog[1].signatureCount # notifyLog[2].signatureCount
    /\ \E cb \in DOMAIN calls : calls[cb] = [n |-> 1, last |-> cachedData]

\* The step in which the fetch or the decoding of execution t fails.
FetchFailed(t) ==
    /\ ticks[t].pc = "fetch"
    /\ ticks'[t].pc # "fetch"
    /\ lastFetch' = NoData

\* C11: the step in which the fetch or the JSON decoding of an execution fails
\* ends the execution and leaves cachedData, lastSignatureCount, the
\* subscribers, the rows and the interval timer as they are, calls no notify
\* and invokes no callback; the timer goes on starting executions.
C11_FetchFailureChangesNothing ==
    [][\A t \in DOMAIN ticks :
         FetchFailed(t) =>
           /\ ticks'[t].pc = "done"
           /\ UNCHANGED <<cachedData, lastSignatureCount, history, notifyLog,
                          subscribers, calls, monitorInterval, timers>>
           /\ notifying' = notifying
           /\ timers # {} /\ Len(ticks) < PollerTicks => ENABLED TimerTick]_vars

\* The first execution failed with nothing cached, and the timer has started
\* the next one, which awaits its fetch.
C11_Witness ==
    /\ Len(ticks) = 2 /\ ticks[1].pc = "done" /\ ticks[2].pc = "fetch"
    /\ lastFetch = NoData
    /\ cachedData = NoData /\ lastSignatureCount = Null
    /\ monitorInterval # Null /\ timers = {monitorInterval}

\* C12: an execution whose response decodes to an object without a numeric
\* signatureCount ends like a failed fetch: no row, no notify, cachedData and
\* lastSignatureCount as before.
C12_MalformedIsFailure ==
    [][\A t \in DOMAIN ticks :
         (/\ ticks[t].pc = "fetch"
          /\ ticks'[t].pc # "fetch"
          /\ lastFetch' # NoData
          /\ ~IsNumber(lastFetch'.rawData.signatureCount))
         => /\ UNCHANGED <<cachedData, lastSignatureCount, history, notifyLog, calls>>
            /\ ticks'[t].pc = "done"
            /\ ~notifying'.active]_vars

\* C13: whatever startMonitoring and stopMonitoring calls were made, at most
\* one interval timer is active, and it is the one monitorInterval holds: no
\* step taken while the monitor runs creates a timer, so one stopMonitoring
\* leaves none.
C13_AtMostOneTimer ==
    /\ [](/\ Cardinality(timers) <= 1
          /\ monitorInterval = Null => timers = {}
          /\ monitorInterval # Null => timers = {monitorInterval})
    /\ [][monitorInterval # Null =>
            nextTimer' = nextTimer /\ timers' \subseteq timers]_vars
    /\ [][monitorInterval # Null /\ monitorInterval' = Null => timers' = {}]_vars

\* The monitor was started, stopped and started again: the one active timer
\* is the second one.
C13_Witness ==
    /\ nextTimer = 3
    /\ monitorInterval = 2
    /\ timers = {2}
    /\ Len(ticks) = 2

\* C14: while the monitor is stopped an execution starts only in a step that
\* starts the monitor; the step that stops it touches no execution, row,
\* snapshot or subscriber; an execution in flight can still go on, and when it
\* leaves its insert it updates the snapshot and calls notify as if running.
C14_StopDoesNotInterrupt ==
    /\ [][Len(ticks') > Len(ticks) /\ monitorInterval = Null =>
            monitorInterval' # Null]_vars
    /\ [][monitorInterval # Null /\ monitorInterval' = Null =>
            /\ ticks' = ticks
            /\ UNCHANGED <<monitorVars, subVars, notifying>>]_vars
    /\ [][monitorInterval = Null /\ Idle =>
            \A t \in DOMAIN ticks :
              /\ ticks[t].pc = "fetch" => ENABLED FetchDone(t)
              /\ ticks[t].pc = "save" => ENABLED SaveDone(t)
              /\ ticks[t].pc = "save" /\ ticks'[t].pc # "save" =>
                   /\ cachedData' = ticks[t].data
                   /\ lastSignatureCount' = ticks[t].data.signatureCount
                   /\ Len(notifyLog') = Len(notifyLog) + 1]_vars

\* The only execution was in flight when the monitor was stopped; it has
\* since inserted its row, and its notify has invoked the subscriber.
C14_Witness ==
    /\ monitorInterval = Null /\ timers = {}
    /\ nextTimer = 2
    /\ Len(ticks) = 1
    /\ Len(history) = 1
    /\ NotifyExhausted
    /\ notifying.invoked = <<1>>
    /\ calls[1].last = cachedData

\* C15: lastSignatureCount is null exactly as long as cachedData is, and from
\* then on it is the signatureCount of cachedData.
C15_CountMirrorsSnapshot ==
    IF cachedData = NoData
    THEN lastSignatureCount = Null
    ELSE lastSignatureCount = cachedData.signatureCount

\* Two changes were detected and notified; the recorded count is the count of
\* the second snapshot.
C15_Witness ==
    /\ Idle
    /\ Len(notifyLog) = 2
    /\ notifyLog[1].signatureCount # notifyLog[2].signatureCount
    /\ IsNumber(lastSignatureCount)
    /\ cachedData # NoData
    /\ cachedData.signatureCount = notifyLog[2].signatureCount

\* C16: the snapshot in cachedData (which getCurrentData returns), every
\* snapshot a callback was invoked with, the snapshot of the running notify and
\* every row inserted carry goal = GOAL_OVERRIDE.
C16_GoalAlwaysOverridden ==
    /\ getCurrentData # NoData => getCurrentData.goal = GOAL_OVERRIDE
    /\ \A i \in DOMAIN history : history[i].goal = GOAL_OVERRIDE
    /\ \A cb \in DOMAIN calls :
         calls[cb].last # NoData => calls[cb].last.goal = GOAL_OVERRIDE
    /\ notifying.active => notifying.data.goal = GOAL_OVERRIDE

\* C17: every row in the response of a history endpoint has goal =
\* GOAL_OVERRIDE, whatever the hours parameter and the stored goal.
C17_HistoryGoalOverridden ==
    response # NoData =>
      \A i \in DOMAIN response.data : response.data[i].goal = GOAL_OVERRIDE

\* C18: a connection has executed connectionCount-- once when it is closed
\* and never while it is open, so connectionCount is the number of open
\* connections; and no cleanup of a connection whose start has returned (the
\* cleanup of a failed notification, of a failed heartbeat, of a close) ends in
\* an exception.
C18_CleanupTakesEffectOnce ==
    /\ [](\A c \in DOMAIN conns :
            conns[c].decrements = IF conns[c].isConnected THEN 0 ELSE 1)
    /\ [](connectionCount = Cardinality({c \in DOMAIN conns : conns[c].isConnected}))
    /\ [][\A c \in DOMAIN conns :
            conns'[c].cleanupThrew = conns[c].cleanupThrew]_vars

\* A connection that had data written to it is closed while another one is
\* open: the counter is 1.
C18_Witness ==
    /\ Len(conns) = 2
    /\ \E c, o \in DOMAIN conns :
         /\ ~conns[c].isConnected /\ conns[c].writes >= 1
         /\ conns[c].heartbeat = "cleared"
         /\ conns[o].isConnected
    /\ connectionCount = 1

\* C19: the callback of a closed connection is not in the Set and its
\* heartbeat timer is not active.
C19_ClosedIsUnsubscribed ==
    \A c \in DOMAIN conns :
      ~conns[c].isConnected =>
        /\ ~SetHas(subscribers, conns[c].cb)
        /\ conns[c].heartbeat # "active"

\* C20: nothing is written to a closed connection, neither by the step that
\* creates it closed nor by any later step, and a closed connection stays
\* closed.
C20_ClosedIsTerminal ==
    /\ [][\A c \in DOMAIN conns :
            ~conns[c].isConnected =>
              /\ conns'[c].writes = conns[c].writes
              /\ ~conns'[c].isConnected]_vars
    /\ [](\A c \in DOMAIN conns :
            ~conns[c].isConnected /\ conns[c].unsubscribe = "tdz" => conns[c].writes = 0)

\* The callback of a closed connection was invoked by a notify after the
\* connection had closed, and nothing was written.
C20_Witness ==
    \E c \in DOMAIN conns :
      /\ ~conns[c].isConnected
      /\ calls[conns[c].cb].n >= 2
      /\ conns[c].writes = 0

\* C21: the first streaming request creates the monitor's one interval
\* timer, no later request creates another, and no step (a close, a failed
\* heartbeat, a failed notification) removes it; the timer can fire whenever
\* no notify is running, also when no connection is open.
C21_PollerOutlivesConnections ==
    /\ [](Len(conns) >= 1 => monitoringStarted)
    /\ [](monitoringStarted =>
            /\ monitorInterval # Null
            /\ timers = {monitorInterval}
            /\ nextTimer = monitorInterval + 1)
    /\ [][monitoringStarted => UNCHANGED timerVars]_vars
    /\ [](monitoringStarted /\ Idle => ENABLED TimerTick)

\* Two connections were opened and both are closed, and an execution the
\* timer started is fetching.
C21_Witness ==
    /\ Len(conns) = 2
    /\ connectionCount = 0
    /\ \A c \in DOMAIN conns : ~conns[c].isConnected
    /\ SetSize(subscribers) = 0
    /\ Len(ticks) = 2
    /\ ticks[2].pc = "fetch"
    /\ timers # {}

\* C22: no exception escapes: every call of subscribe returns (its caller
\* holds the unsubscribe function afterwards), and no cleanup of a connection
\* ends in an exception.
C22_NoUncaughtException ==
    /\ [][Len(calls') = Len(calls) + 1 => Len(calls') \in handles']_vars
    /\ [](\A c \in DOMAIN conns : ~conns[c].cleanupThrew)

\* The heartbeat timer of connection c fires and its event is written.
HeartbeatWritten(c) == Heartbeat(c) /\ conns'[c].writes = conns[c].writes + 1

\* C23: an open connection has its heartbeat timer active, and whenever no
\* notify is running the timer can fire and write its event, whether or not
\* a snapshot was ever cached or delivered; a heartbeat that is written
\* leaves the monitor, the Set and the log of callback invocations as they
\* are, and the connection open.
C23_HeartbeatIndependentOfData ==
    /\ [](\A c \in DOMAIN conns :
            conns[c].isConnected => conns[c].heartbeat = "active")
    /\ [](\A c \in DOMAIN conns :
            (Idle /\ conns[c].isConnected /\ conns[c].writes < StreamWrites)
              => ENABLED HeartbeatWritten(c))
    /\ [][\A c \in DOMAIN conns :
            HeartbeatWritten(c) =>
              /\ UNCHANGED <<monitorVars, timerVars, subVars, ticks, notifying>>
              /\ conns'[c].isConnected]_vars

\* A heartbeat was written to an open connection that no snapshot was ever
\* delivered to, while nothing is cached.
C23_Witness ==
    \E c \in DOMAIN conns :
      /\ conns[c].isConnected
      /\ conns[c].writes = 1
      /\ calls[conns[c].cb].n = 0
      /\ cachedData = NoData

\* The larger of two numbers.
Larger(a, b) == IF a >= b THEN a ELSE b

\* C24: when the query of a stats request succeeded and rows are stored, the
\* response reports as currentSignatures the larger of the live snapshot's
\* count and the count of the last stored row when there was a live snapshot
\* (with a count), and the count of the last stored row when there was none.
C24_CurrentSignaturesIsLarger ==
    (/\ statsCall # NoData
     /\ statsCall.done
     /\ ~statsCall.error
     /\ Len(statsCall.table) > 0
     /\ statsCall.currentLiveData # NoData =>
           IsNumber(statsCall.currentLiveData.signatureCount))
    => response.body.currentSignatures =
         LET last == statsCall.table[Len(statsCall.table)].signature_count
         IN IF statsCall.currentLiveData # NoData
            THEN Larger(statsCall.currentLiveData.signatureCount, last)
            ELSE last

\* C25: every stats request is answered, and a request whose query reported
\* an error or returned no rows while a live snapshot (with a count other
\* than 0) was cached is answered with status 200 and the snapshot's count;
\* the error payload with status 500 is the answer to a failed query only.
C25_FallbackWhenStorageUnavailable ==
    (statsCall # NoData /\ statsCall.done) =>
      LET live == statsCall.currentLiveData
      IN /\ response # NoData
         /\ response.status \in {200, 500}
         /\ response.status = 500 =>
              /\ statsCall.error
              /\ response.body = [error |-> "Failed to calculate stats"]
         /\ (/\ statsCall.error \/ Len(statsCall.rawData) = 0
             /\ live # NoData
             /\ Truthy(live.signatureCount))
            => /\ response.status = 200
               /\ response.body.currentSignatures = live.signatureCount

\* C26: an event without a data payload, a heartbeat among them, leaves
\* liveData, lastUpdated and historicalData of the dashboard as they are.
C26_HeartbeatIgnored ==
    [][(/\ Len(inbox') = Len(inbox) + 1
        /\ \/ inbox'[Len(inbox')].data = NoData
           \/ inbox'[Len(inbox')].type = "heartbeat")
       => UNCHANGED <<liveData, lastUpdated, historicalData>>]_vars

\* An update was received and then a heartbeat with a later timestamp: the
\* dashboard shows the update.
C26_Witness ==
    /\ Len(inbox) = 2
    /\ inbox[1].data # NoData
    /\ inbox[2] = HeartbeatEvent(2)
    /\ liveData = inbox[1].data
    /\ lastUpdated = 1
    /\ Len(historicalData) = 1

\* C31: connectionCount is the number of connections whose isConnected is
\* true, and is never negative.
C31_CountIsOpenConnections ==
    /\ connectionCount = Cardinality({c \in DOMAIN conns : conns[c].isConnected})
    /\ connectionCount >= 0

\* One connection is open and the other one was closed by the failure of its
\* first write, inside start: the counter is 1.
C31_Witness ==
    /\ Len(conns) = 2
    /\ \E c, o \in DOMAIN conns :
         /\ ~conns[c].isConnected /\ conns[c].writes = 0 /\ conns[c].decrements = 1
         /\ conns[c].heartbeat # "cleared"
         /\ conns[o].isConnected
    /\ connectionCount = 1

\* C32: while a connection is open the monitor's interval timer exists.
C32_OpenImpliesPolling ==
    (\E c \in DOMAIN conns : conns[c].isConnected) => timers # {}

\* The rate the specification defines: the positive changes of the rows with
\* now - windowMs <= timestamp <= now, per second of the lesser of windowMs
\* and the time since the earliest of these rows; 0 when there is no such row.
SpecifiedRate(rows, windowMs, now) ==
    LET qualifying == SelectSeq(rows, LAMBDA row :
                        now - windowMs <= row.timestamp /\ row.timestamp <= now)
    IN IF Len(qualifying) = 0 \/ SumPositive(qualifying) = 0 THEN ZeroRate
       ELSE [num |-> SumPositive(qualifying) * 1000,
             den |-> Min(windowMs, now - qualifying[1].timestamp)]

\* Two quotients are the same number (every den is a multiple of 1000).
SameNumber(a, b) == a.num * (b.den \div 1000) = b.num * (a.den \div 1000)

\* A rate in its unit, per second again.
PerSecond(rate, k) == [num |-> rate.num \div k, den |-> rate.den]

\* C33: each rate of the statistics is the specified rate of its window,
\* scaled to its unit.
C33_RateIsSpecifiedRate ==
    calc # NoData =>
      /\ SameNumber(calc.secRate, SpecifiedRate(calc.data, SEC_WINDOW, calc.now))
      /\ SameNumber(PerSecond(calc.minRate, 60),
                    SpecifiedRate(calc.data, MIN_WINDOW, calc.now))
      /\ SameNumber(PerSecond(calc.hourlyRate, 3600),
                    SpecifiedRate(calc.data, HOUR_WINDOW, calc.now))
      /\ SameNumber(PerSecond(calc.dailyRate, 86400),
                    SpecifiedRate(calc.data, DAY_WINDOW, calc.now))

\* C34: every rate is a finite number that is not negative: its divisor is
\* positive.
C34_RateIsFinite ==
    calc # NoData =>
      /\ calc.secRate.den > 0
      /\ calc.minRate.den > 0
      /\ calc.hourlyRate.den > 0
      /\ calc.dailyRate.den > 0

\* C35: the activityLevel of every response with statistics is High,
\* Medium, Low or Minimal.
C35_ActivityLevelIsATier ==
    (response # NoData /\ response.status = 200)
      => response.body.activityLevel \in {"High", "Medium", "Low", "Minimal"}

\* C36: timeToGoal is 'Goal reached!' when goal - currentSignatures <= 0,
\* whatever the rates; otherwise it is computed from the first of secRate
\* (> 0.1), minRate (> 0.1), hourlyRate (> 0.1), dailyRate (> 0) that
\* qualifies, and it is 'No recent activity' exactly when none does.
C36_TimeToGoalByPriority ==
    calc # NoData =>
      LET remaining == calc.goal - calc.currentSignatures
          sec == Exceeds(calc.secRate, 1, 10)
          min == Exceeds(calc.minRate, 1, 10)
          hour == Exceeds(calc.hourlyRate, 1, 10)
          day == Exceeds(calc.dailyRate, 0, 1)
          t == calc.timeToGoal
      IN /\ remaining <= 0 => t.text = "Goal reached!"
         /\ remaining > 0 =>
              /\ t.text # "Goal reached!"
              /\ t.rate = "secRate" <=> sec
              /\ t.rate = "minRate" <=> ~sec /\ min
              /\ t.rate = "hourlyRate" <=> ~sec /\ ~min /\ hour
              /\ t.rate = "dailyRate" <=> ~sec /\ ~min /\ ~hour /\ day
              /\ t.text = "No recent activity" <=> ~sec /\ ~min /\ ~hour /\ ~day

\* The goal is reached while the rate of the last 30 seconds is above 0.1.
C36_Witness ==
    /\ calc # NoData
    /\ calc.goal - calc.currentSignatures <= 0
    /\ Exceeds(calc.secRate, 1, 10)
    /\ calc.secRate.den > 0
    /\ calc.timeToGoal.text = "Goal reached!"

\* The positive changes of the rows of the last 24 hours in hour h.
HourSum(rows, now, h) ==
    SumPositive(SelectSeq(rows, LAMBDA row :
                  row.timestamp > now - DAY_WINDOW /\ HourOf(row.timestamp) = h))

\* C37: peakHour is the lowest-numbered hour among those with the largest
\* sum of positive changes over the rows of the last 24 hours, and 0 when no
\* such row has a positive change.
C37_PeakHourLowestOfLargest ==
    calc # NoData =>
      LET largest == CHOOSE m \in {HourSum(calc.data, calc.now, h) : h \in 0..23} :
                       \A h \in 0..23 : HourSum(calc.data, calc.now, h) <= m
      IN IF largest = 0 THEN calc.peakHour = 0
         ELSE /\ HourSum(calc.data, calc.now, calc.peakHour) = largest
              /\ \A h \in 0..23 :
                   HourSum(calc.data, calc.now, h) = largest => calc.peakHour <= h

\* Two hours tie, and the row of the higher-numbered hour (23) comes first
\* in the data: the lower-numbered hour (1) is reported.
C37_Witness ==
    /\ calc # NoData
    /\ Len(calc.data) = 2
    /\ HourOf(calc.data[1].timestamp) = 23
    /\ HourOf(calc.data[2].timestamp) = 1
    /\ calc.data[1].change_amount = 1
    /\ calc.data[2].change_amount = 1
    /\ calc.peakHour = 1

\* C38: the retries of the WebSocketStore are bounded: reconnectAttempts never
\* exceeds maxReconnectAttempts, the open of a socket resets it to 0, and
\* while it stands at maxReconnectAttempts (the attempts since the last open
\* have all failed) no step schedules a reconnect timer.
C38_RetriesBounded ==
    /\ [](reconnectAttempts <= maxReconnectAttempts)
    /\ [][\A s \in DOMAIN sockets :
            (sockets[s] = "connecting" /\ sockets'[s] = "open")
            => reconnectAttempts' = 0]_vars
    /\ [][reconnectAttempts = maxReconnectAttempts
          => /\ wsTimers'.next = wsTimers.next
             /\ wsTimers'.pending \subseteq wsTimers.pending]_vars

\* The store has given up: the attempts are used up after sockets were closed,
\* no socket is left that could open or close, and no timer is pending.
C38_Witness ==
    /\ reconnectAttempts = maxReconnectAttempts
    /\ reconnectTimeout = Null
    /\ wsTimers.pending = {}
    /\ sockets # << >>
    /\ \A s \in DOMAIN sockets : sockets[s] = "closed"

\* C39: after disconnect() and until the owner calls connect(), no reconnect
\* timer is pending and wsConnected is false.
C39_DisconnectIsFinal ==
    disconnected =>
      /\ reconnectTimeout = Null
      /\ wsTimers.pending = {}
      /\ ~wsConnected

\* C27: the snapshots applied (cached and notified) come from upstream values
\* in the order in which upstream took them: none is older than one applied
\* before it.
C27_NoRegression ==
    \A i, j \in DOMAIN notifyLog :
      i < j => notifyLog[i].epoch <= notifyLog[j].epoch

\* C28: every row after the first carries as change_amount the difference of
\* its signature_count to that of the row before it.
C28_HistoryIsChain ==
    \A i \in DOMAIN history :
      (/\ i > 1
       /\ IsNumber(history[i].signature_count)
       /\ IsNumber(history[i - 1].signature_count))
      => history[i].change_amount =
           history[i].signature_count - history[i - 1].signature_count

\* C29: when no execution of checkForChanges and no notify is in progress and
\* a snapshot is cached, every callback in the Set was last invoked with
\* cachedData.
C29_NoStaleSubscriber ==
    (/\ Idle
     /\ \A t \in DOMAIN ticks : ~InFlight(t)
     /\ cachedData # NoData)
    => \A cb \in SetMembers(subscribers) : calls[cb].last = cachedData

\* One callback subscribed before anything was cached and one after the first
\* snapshot; a second, different snapshot has been applied since, and both
\* hold it.
C29_Witness ==
    /\ Idle
    /\ \A t \in DOMAIN ticks : ~InFlight(t)
    /\ Len(notifyLog) = 2
    /\ notifyLog[1].signatureCount # notifyLog[2].signatureCount
    /\ SetMembers(subscribers) = {1, 2}
    /\ calls[1].n = 2 /\ calls[2].n = 2
    /\ calls[1].last = cachedData /\ calls[2].last = cachedData

\* C30: the loop of a notify does not invoke a callback that was subscribed
\* during that notify (subscribe has already delivered the snapshot to it).
C30_NoDoubleDeliveryToNewcomer ==
    notifying.active =>
      \A cb \in DOMAIN calls :
        (cb \notin notifying.atStart /\ calls[cb].last = notifying.data)
        => Count(notifying.invoked, cb) = 0

\* notify was called with data on the subscribers of the state before the step.
NotifyCalled(t, data) ==
    IF SetSize(subscribers) = 0
    THEN ticks'[t].pc = "done" /\ ~notifying'.active
    ELSE /\ notifying'.active
         /\ notifying'.data = data
         /\ notifying'.atStart = SetMembers(subscribers)
         /\ notifying'.idx = 0

\* The step in which execution t goes on after its insert failed.
InsertFailed(t) ==
    /\ ticks[t].pc = "save"
    /\ ticks'[t].pc # "save"
    /\ history' = history

\* The step in which execution t detects a change and skips the insert.
InsertSkipped(t) ==
    /\ ~hasValidSupabase
    /\ ticks[t].pc = "fetch"
    /\ ticks'[t].pc # "fetch"
    /\ lastFetch' # NoData
    /\ lastFetch'.rawData.signatureCount # lastSignatureCount

\* C10: when the insert of a detected change fails or is skipped for want of
\* credentials, the same execution sets cachedData and lastSignatureCount to
\* the new snapshot and calls notify with it, and that notify invokes every
\* subscriber registered at the call with the snapshot.
C10_LiveDeliveryWithoutPersistence ==
    /\ [][\A t \in DOMAIN ticks :
            /\ InsertFailed(t) =>
                 /\ cachedData' = ticks[t].data
                 /\ lastSignatureCount' = ticks[t].data.signatureCount
                 /\ NotifyCalled(t, ticks[t].data)
            /\ InsertSkipped(t) =>
                 /\ cachedData' = applyGoalOverride(lastFetch'.rawData)
                 /\ lastSignatureCount' = lastFetch'.rawData.signatureCount
                 /\ NotifyCalled(t, applyGoalOverride(lastFetch'.rawData))]_vars
    /\ [](NotifyExhausted =>
            \A cb \in notifying.atStart \ notifying.removed :
              /\ Count(notifying.invoked, cb) = 1
              /\ calls[cb].last = notifying.data)

\* The insert of the only change detected failed (no row), and the notify of
\* that execution has invoked the registered subscriber with the new snapshot.
C10_Witness ==
    /\ hasValidSupabase
    /\ history = << >>
    /\ NotifyExhausted
    /\ notifying.invoked = <<1>>
    /\ cachedData = notifying.data
    /\ lastSignatureCount = cachedData.signatureCount
    /\ calls[1] = [n |-> 1, last |-> cachedData]

\* -------------------------------------------------------- specifications
Started(n) == Len(ticks) < n
Subscribed(n) == Len(calls) < n

\* The poller with its persistence, and subscribers whose callbacks return.
\* startMonitoring is called by every streaming request; nothing stops it.
NextPoller ==
    \/ epoch < PollerEpochs /\ UpstreamChange
    \/ Started(PollerTicks) /\ startMonitoring
    \/ Started(PollerTicks) /\ TimerTick
    \/ \E t \in DOMAIN ticks : FetchFail(t)
    \/ \E t \in DOMAIN ticks : FetchDone(t)
    \/ \E t \in DOMAIN ticks : FetchMalformed(t)
    \/ \E t \in DOMAIN ticks : SaveDone(t)
    \/ Subscribed(PollerSubs) /\ subscribe
    \/ NotifyReturn
    \/ NotifyEnd

SpecPoller == Init /\ [][NextPoller]_vars

\* The SubscriberManager under callbacks that return, throw, unsubscribe and
\* subscribe, fed by the poller of a deployment without storage credentials
\* (supabase.ts falls back to its placeholders), where a tick is one job from
\* the response to notify.
NextFanout ==
    \/ epoch < FanoutEpochs /\ UpstreamChange
    \/ Started(FanoutTicks) /\ startMonitoring
    \/ Started(FanoutTicks) /\ TimerTick
    \/ \E t \in DOMAIN ticks : FetchDone(t)
    \/ Subscribed(FanoutSubs) /\ subscribe
    \/ \E cb \in handles : unsubscribe(cb)
    \/ NotifyReturn
    \/ NotifyThrow
    \/ NotifyUnsubscribe
    \/ Subscribed(FanoutSubs) /\ NotifySubscribe
    \/ NotifyEnd

\* The monitor started and stopped at will, with its executions and one
\* subscriber; the upstream count does not change.
NextLifecycle ==
    \/ Started(LifecycleTicks) /\ startMonitoring
    \/ stopMonitoring
    \/ Started(LifecycleTicks) /\ TimerTick
    \/ \E t \in DOMAIN ticks : FetchFail(t)
    \/ \E t \in DOMAIN ticks : FetchDone(t)
    \/ \E t \in DOMAIN ticks : SaveDone(t)
    \/ Subscribed(LifecycleSubs) /\ subscribe
    \/ NotifyReturn
    \/ NotifyEnd

SpecLifecycle == Init /\ [][NextLifecycle]_vars

\* The monitor of lib/dataMonitor.ts, which the streaming endpoint imports,
\* with one subscriber.
NextLegacy ==
    \/ epoch < LegacyEpochs /\ UpstreamChange
    \/ Started(LegacyTicks) /\ startMonitoring
    \/ Started(LegacyTicks) /\ TimerTick
    \/ \E t \in DOMAIN ticks : FetchFail(t)
    \/ \E t \in DOMAIN ticks : LegacyFetchDone(t)
    \/ Subscribed(LegacySubs) /\ subscribe
    \/ NotifyReturn
    \/ NotifyEnd

SpecLegacy == Init /\ [][NextLegacy]_vars

\* The history endpoints over a table of stored rows.
NextHistory ==
    \/ StoreRow
    \/ Request_part_000
    \/ Request_part_001
    \/ Request_part_002

SpecHistory == Init /\ [][NextHistory]_vars

\* The stats endpoint over a table of stored rows and the snapshot of a
\* monitor that was started once.
NextStats ==
    \/ StoreRow
    \/ startMonitoring
    \/ \E t \in DOMAIN ticks : FetchDone(t)
    \/ \E t \in DOMAIN ticks : FetchMalformed(t)
    \/ \E t \in DOMAIN ticks : SaveDone(t)
    \/ StatsRequest
    \/ StatsQueryDone

SpecStats == Init /\ [][NextStats]_vars

\* The dashboard: the events of its stream and the loads of the history.
NextClient ==
    \/ Len(table) < ClientRows /\ StoreRow
    \/ fetchHistoricalData
    \/ Len(inbox) < ClientMessages /\ Receive
    \/ Len(inbox) < ClientMessages /\ Receive_part_003

SpecClient == Init /\ [][NextClient]_vars

\* The live-data endpoint with its connections, on the monitor of a
\* deployment without storage credentials.
NextStream ==
    \/ epoch < StreamEpochs /\ UpstreamChange
    \/ Len(conns) < StreamConns /\ GET_live_data
    \/ Started(StreamTicks) /\ TimerTick
    \/ \E t \in DOMAIN ticks : FetchDone(t)
    \/ \E c \in DOMAIN conns : Heartbeat(c)
    \/ \E c \in DOMAIN conns : Close(c)
    \/ NotifyConnection
    \/ NotifyEnd

\* The live-data endpoint on a monitor that its importers may stop.
NextRestart ==
    \/ Len(conns) < RestartConns /\ GET_live_data
    \/ stopMonitoring
    \/ Started(RestartTicks) /\ TimerTick
    \/ \E t \in DOMAIN ticks : FetchDone(t)
    \/ \E c \in DOMAIN conns : Heartbeat(c)
    \/ \E c \in DOMAIN conns : Close(c)
    \/ NotifyConnection
    \/ NotifyEnd

\* A deployment without storage credentials: saveToSupabase returns at once.
InitFanout == Init /\ ~hasValidSupabase

SpecFanout == InitFanout /\ [][NextFanout]_vars

SpecStream == InitFanout /\ [][NextStream]_vars

SpecRestart == InitFanout /\ [][NextRestart]_vars

\* The statistics of the stats endpoint as functions of the rows.
NextStatistics == ComputeStatistics

SpecStatistics == Init /\ [][NextStatistics]_vars

\* The WebSocketStore with its sockets and its reconnect timer.
NextWebSocket ==
    \/ Connect
    \/ TimeoutFires
    \/ \E s \in DOMAIN sockets : onopen(s)
    \/ \E s \in DOMAIN sockets : onerror(s)
    \/ \E s \in DOMAIN sockets : onclose(s)
    \/ disconnect

SpecWebSocket == Init /\ [][NextWebSocket]_vars

====
